---- MODULE Spec2Model ----
(***************************************************************************)
(* Model of the pubgrub-cpp CDCL dependency resolver: the range algebra,   *)
(* terms, incompatibilities, the partial solution, the resolver state and  *)
(* the driver loop of resolve().                                           *)
(***************************************************************************)
EXTENDS Integers, Sequences, FiniteSets, TLC

(***************************************************************************)
(* Bound<V> and the free comparison helpers (include/ranges.h).            *)
(***************************************************************************)
unbounded == [kind |-> "Unbounded", value |-> 0, inc |-> "Open"]

closed(v) == [kind |-> "Finite", value |-> v, inc |-> "Closed"]

open(v) == [kind |-> "Finite", value |-> v, inc |-> "Open"]

is_unbounded(b) == b.kind = "Unbounded"

is_finite(b) == b.kind = "Finite"

is_closed(b) == b.inc = "Closed"

is_open(b) == b.inc = "Open"

flip_inclusivity(b) ==
    IF is_unbounded(b) THEN b
    ELSE [kind |-> "Finite", value |-> b.value,
          inc |-> IF is_closed(b) THEN "Open" ELSE "Closed"]

valid_segment(start, end) ==
    IF is_unbounded(start) \/ is_unbounded(end) THEN TRUE
    ELSE IF start.value < end.value THEN TRUE
    ELSE IF start.value = end.value /\ is_closed(start) /\ is_closed(end) THEN TRUE
    ELSE FALSE

end_before_start_with_gap(end, start) ==
    IF is_unbounded(end) \/ is_unbounded(start) THEN FALSE
    ELSE IF end.value < start.value THEN TRUE
    ELSE IF end.value = start.value /\ (is_open(end) \/ is_open(start)) THEN TRUE
    ELSE FALSE

left_start_is_smaller(left, right) ==
    IF is_unbounded(left) THEN TRUE
    ELSE IF is_unbounded(right) THEN FALSE
    ELSE IF left.value < right.value THEN TRUE
    ELSE IF left.value = right.value /\ is_closed(left) /\ is_open(right) THEN TRUE
    ELSE FALSE

left_end_is_smaller(left, right) ==
    IF is_unbounded(right) THEN TRUE
    ELSE IF is_unbounded(left) THEN FALSE
    ELSE IF left.value < right.value THEN TRUE
    ELSE IF left.value = right.value /\ is_open(left) /\ is_closed(right) THEN TRUE
    ELSE FALSE

(***************************************************************************)
(* Ranges<V>: a sequence of intervals <<start, end>> (include/ranges.h).   *)
(***************************************************************************)
RangesEmpty == << >>

RangesFull == << <<unbounded, unbounded>> >>

higher_than(v) == << <<closed(v), unbounded>> >>

strictly_higher_than(v) == << <<open(v), unbounded>> >>

lower_than(v) == << <<unbounded, closed(v)>> >>

strictly_lower_than(v) == << <<unbounded, open(v)>> >>

between(low, high) == << <<closed(low), open(high)>> >>

singleton(v) == << <<closed(v), closed(v)>> >>

is_empty(r) == Len(r) = 0

RECURSIVE complement_loop(_, _, _, _)
complement_loop(segs, i, current, result) ==
    IF i > Len(segs)
    THEN IF is_finite(current) THEN Append(result, <<current, unbounded>>) ELSE result
    ELSE LET start == segs[i][1]
             end == segs[i][2]
             has_gap == IF is_unbounded(current) /\ is_finite(start) THEN TRUE
                        ELSE IF is_finite(current) /\ is_finite(start)
                             THEN end_before_start_with_gap(current, start)
                             ELSE FALSE
             result2 == IF has_gap
                        THEN Append(result, <<current, flip_inclusivity(start)>>)
                        ELSE result
         IN complement_loop(segs, i + 1, flip_inclusivity(end), result2)

complement(r) ==
    IF Len(r) = 0 THEN RangesFull
    ELSE IF Len(r) = 1 /\ is_unbounded(r[1][1]) /\ is_unbounded(r[1][2]) THEN RangesEmpty
    ELSE complement_loop(r, 1, unbounded, << >>)

\* acc.cur is the optional `current` interval (<< >> or <<interval>>).
union_absorb(acc, next_interval) ==
    IF acc.cur = << >> THEN [cur |-> <<next_interval>>, res |-> acc.res]
    ELSE LET c == acc.cur[1] IN
         IF end_before_start_with_gap(c[2], next_interval[1])
         THEN [cur |-> <<next_interval>>, res |-> Append(acc.res, c)]
         ELSE IF left_end_is_smaller(c[2], next_interval[2])
              THEN [cur |-> << <<c[1], next_interval[2]>> >>, res |-> acc.res]
              ELSE acc

RECURSIVE union_loop(_, _, _, _, _)
union_loop(L, R, li, ri, acc) ==
    IF li <= Len(L) /\ ri <= Len(R)
    THEN IF left_start_is_smaller(L[li][1], R[ri][1])
         THEN union_loop(L, R, li + 1, ri, union_absorb(acc, L[li]))
         ELSE union_loop(L, R, li, ri + 1, union_absorb(acc, R[ri]))
    ELSE IF li <= Len(L) THEN union_loop(L, R, li + 1, ri, union_absorb(acc, L[li]))
    ELSE IF ri <= Len(R) THEN union_loop(L, R, li, ri + 1, union_absorb(acc, R[ri]))
    ELSE IF acc.cur # << >> THEN Append(acc.res, acc.cur[1]) ELSE acc.res

union_(a, b) ==
    IF Len(a) = 0 THEN b
    ELSE IF Len(b) = 0 THEN a
    ELSE union_loop(a, b, 1, 1, [cur |-> << >>, res |-> << >>])

RECURSIVE intersection_loop(_, _, _, _, _)
intersection_loop(L, R, li, ri, result) ==
    IF li <= Len(L) /\ ri <= Len(R)
    THEN LET left_start == L[li][1]
             left_end_bound == L[li][2]
             right_start == R[ri][1]
             right_end_bound == R[ri][2]
             start == IF left_start_is_smaller(left_start, right_start)
                      THEN right_start ELSE left_start
             end == IF left_end_is_smaller(left_end_bound, right_end_bound)
                    THEN left_end_bound ELSE right_end_bound
             result2 == IF valid_segment(start, end)
                        THEN Append(result, <<start, end>>) ELSE result
         IN IF left_end_is_smaller(left_end_bound, right_end_bound)
            THEN intersection_loop(L, R, li + 1, ri, result2)
            ELSE intersection_loop(L, R, li, ri + 1, result2)
    ELSE result

intersection(a, b) ==
    IF Len(a) = 0 \/ Len(b) = 0 THEN RangesEmpty
    ELSE intersection_loop(a, b, 1, 1, << >>)

segment_contains(seg, version) ==
    LET start == seg[1]
        end == seg[2]
    IN ~ (is_finite(start) /\ is_closed(start) /\ version < start.value)
       /\ ~ (is_finite(start) /\ is_open(start) /\ version <= start.value)
       /\ ~ (is_finite(end) /\ is_closed(end) /\ version > end.value)
       /\ ~ (is_finite(end) /\ is_open(end) /\ version >= end.value)

contains(r, version) == \E i \in 1..Len(r) : segment_contains(r[i], version)

is_disjoint(a, b) == is_empty(intersection(a, b))

subset_of(a, b) == intersection(a, b) = a

(***************************************************************************)
(* Term<V> (include/term.h).                                               *)
(***************************************************************************)
Positive(r) == [pol |-> "Positive", ranges |-> r]

Negative(r) == [pol |-> "Negative", ranges |-> r]

TermAny == Negative(RangesFull)

TermEmpty == Positive(RangesEmpty)

exact(v) == Positive(singleton(v))

is_positive(t) == t.pol = "Positive"

is_negative(t) == t.pol = "Negative"

negate(t) == [pol |-> IF is_positive(t) THEN "Negative" ELSE "Positive",
              ranges |-> t.ranges]

term_contains(t, v) ==
    IF is_positive(t) THEN contains(t.ranges, v) ELSE ~ contains(t.ranges, v)

term_intersection(t, other) ==
    IF is_positive(t) /\ is_positive(other)
    THEN Positive(intersection(t.ranges, other.ranges))
    ELSE IF (is_positive(t) /\ is_negative(other)) \/ (is_negative(t) /\ is_positive(other))
    THEN LET p == IF is_positive(t) THEN t.ranges ELSE other.ranges
             n == IF is_negative(t) THEN t.ranges ELSE other.ranges
         IN Positive(intersection(p, complement(n)))
    ELSE Negative(union_(t.ranges, other.ranges))

term_is_disjoint(t, other) ==
    IF is_positive(t) /\ is_positive(other)
    THEN is_disjoint(t.ranges, other.ranges)
    ELSE IF is_negative(t) /\ is_negative(other)
    THEN LET union_ranges == union_(t.ranges, other.ranges)
         IN Len(union_ranges) = 1
            /\ is_unbounded(union_ranges[1][1])
            /\ is_unbounded(union_ranges[1][2])
    ELSE LET p == IF is_positive(t) THEN t.ranges ELSE other.ranges
             n == IF is_negative(t) THEN t.ranges ELSE other.ranges
         IN subset_of(p, n)

term_union_with(t, other) ==
    IF is_positive(t) /\ is_positive(other)
    THEN Positive(union_(t.ranges, other.ranges))
    ELSE IF (is_positive(t) /\ is_negative(other)) \/ (is_negative(t) /\ is_positive(other))
    THEN LET p == IF is_positive(t) THEN t.ranges ELSE other.ranges
             n == IF is_negative(t) THEN t.ranges ELSE other.ranges
         IN Negative(intersection(complement(p), n))
    ELSE Negative(intersection(complement(t.ranges), complement(other.ranges)))

\* Term::subset_of comparing two negative terms in the order of the call.
term_subset_of_unswapped(t, other) ==
    IF is_positive(t) /\ is_positive(other) THEN subset_of(t.ranges, other.ranges)
    ELSE IF is_positive(t) /\ is_negative(other) THEN is_disjoint(t.ranges, other.ranges)
    ELSE IF is_negative(t) /\ is_positive(other) THEN FALSE
    ELSE subset_of(t.ranges, other.ranges)

term_subset_of(t, other) ==
    IF is_positive(t) /\ is_positive(other) THEN subset_of(t.ranges, other.ranges)
    ELSE IF is_positive(t) /\ is_negative(other) THEN is_disjoint(t.ranges, other.ranges)
    ELSE IF is_negative(t) /\ is_positive(other) THEN FALSE
    ELSE subset_of(other.ranges, t.ranges)

relation_with(t, other_terms_interction) ==
    IF term_subset_of(other_terms_interction, t) THEN "Satisfied"
    ELSE IF term_is_disjoint(t, other_terms_interction) THEN "Contradicted"
    ELSE "Inconclusive"

(***************************************************************************)
(* SmallMap<K, V> (include/small_map.h): a sequence of <<key, value>>      *)
(* pairs.  With at most two entries the iteration order is the insertion   *)
(* order; with three or more the container is a std::unordered_map whose   *)
(* iteration order is unspecified (the sequence order is then only a       *)
(* canonical storage order).                                               *)
(***************************************************************************)
NullTerm == [pol |-> "null", ranges |-> << >>]

map_len(m) == Len(m)

map_has(m, key) == \E i \in 1..Len(m) : m[i][1] = key

map_get(m, key) ==
    IF map_has(m, key)
    THEN m[CHOOSE i \in 1..Len(m) : m[i][1] = key][2]
    ELSE NullTerm

map_insert(m, key, value) ==
    IF map_has(m, key)
    THEN [i \in 1..Len(m) |-> IF m[i][1] = key THEN <<key, value>> ELSE m[i]]
    ELSE Append(m, <<key, value>>)

map_keys(m) == {m[i][1] : i \in 1..Len(m)}

(***************************************************************************)
(* Incompatibility<P, V, M> (include/term.h, second half).                 *)
(* kind.tag is the provenance; kind.a / kind.b carry the package ids of a  *)
(* FromDependencyOf, the two bases of a DerivedFrom, or the package and    *)
(* version of a NotRoot.                                                   *)
(***************************************************************************)
\* not_root bounding the root version from below only.
not_root_at_least(pkg, version) ==
    [terms |-> << <<pkg, Negative(higher_than(version))>> >>,
     kind |-> [tag |-> "NotRoot", a |-> pkg, b |-> version]]

not_root(pkg, version) ==
    [terms |-> << <<pkg, Negative(singleton(version))>> >>,
     kind |-> [tag |-> "NotRoot", a |-> pkg, b |-> version]]

no_versions(pkg, term) ==
    [terms |-> << <<pkg, term>> >>,
     kind |-> [tag |-> "NoVersions", a |-> pkg, b |-> 0]]

\* from_dependency forbidding the versions of p2 that the dependency asks for.
from_dependency_forbidding(pkg, versions, p2, set2) ==
    [terms |-> IF ~ is_empty(set2)
               THEN map_insert(<< <<pkg, Positive(versions)>> >>, p2, Positive(set2))
               ELSE << <<pkg, Positive(versions)>> >>,
     kind |-> [tag |-> "FromDependencyOf", a |-> pkg, b |-> p2]]

from_dependency(pkg, versions, p2, set2) ==
    [terms |-> IF ~ is_empty(set2)
               THEN map_insert(<< <<pkg, Positive(versions)>> >>, p2, Negative(set2))
               ELSE << <<pkg, Positive(versions)>> >>,
     kind |-> [tag |-> "FromDependencyOf", a |-> pkg, b |-> p2]]

as_dependency(inc) ==
    IF inc.kind.tag = "FromDependencyOf" THEN << <<inc.kind.a, inc.kind.b>> >> ELSE << >>

\* merge_dependents that gives the merged incompatibility only the p1 ranges
\* of this.
merge_dependents_first(this, other) ==
    LET d1 == as_dependency(this)
        d2 == as_dependency(other)
    IN IF d1 = << >> \/ d2 = << >> \/ d1 # d2 THEN << >>
       ELSE LET p1 == d1[1][1]
                p2 == d1[1][2]
                dep_term == map_get(this.terms, p2)
            IN IF p1 = p2 \/ dep_term = NullTerm
                    \/ dep_term # map_get(other.terms, p2) THEN << >>
               ELSE << from_dependency(p1, map_get(this.terms, p1).ranges, p2,
                                       IF is_negative(dep_term) THEN dep_term.ranges
                                       ELSE RangesEmpty) >>

\* this->merge_dependents(other); << >> stands for std::nullopt.
merge_dependents(this, other) ==
    LET d1 == as_dependency(this)
        d2 == as_dependency(other)
    IN IF d1 = << >> \/ d2 = << >> THEN << >>
       ELSE IF d1 # d2 THEN << >>
       ELSE LET p1 == d1[1][1]
                p2 == d1[1][2]
                dep_term == map_get(this.terms, p2)
                dep_term_other == map_get(other.terms, p2)
                t1 == map_get(this.terms, p1)
                t2 == map_get(other.terms, p1)
            IN IF p1 = p2 THEN << >>
               ELSE IF dep_term = NullTerm THEN << >>
               ELSE IF dep_term_other = NullTerm \/ dep_term # dep_term_other THEN << >>
               ELSE LET merged_ranges == union_(t1.ranges, t2.ranges)
                        depSet == IF is_negative(dep_term) THEN dep_term.ranges
                                  ELSE RangesEmpty
                    IN << from_dependency(p1, merged_ranges, p2, depSet) >>

RECURSIVE prior_cause_merge(_, _, _, _)
prior_cause_merge(merged, sat, i, package) ==
    IF i > Len(sat) THEN merged
    ELSE LET pk == sat[i][1]
             t2 == sat[i][2]
         IN IF pk = package THEN prior_cause_merge(merged, sat, i + 1, package)
            ELSE IF map_has(merged, pk)
                 THEN prior_cause_merge(
                          map_insert(merged, pk, term_intersection(map_get(merged, pk), t2)),
                          sat, i + 1, package)
                 ELSE prior_cause_merge(map_insert(merged, pk, t2), sat, i + 1, package)

prior_cause(incompat, satisfier_cause, package, store) ==
    LET inc == store[incompat + 1]
        sat == store[satisfier_cause + 1]
        t1 == map_get(inc.terms, package)
        merged == prior_cause_merge(inc.terms, sat.terms, 1, package)
        t2 == map_get(sat.terms, package)
        new_term == term_intersection(t1, t2)
    IN [terms |-> IF t2 # NullTerm /\ new_term # TermAny
                  THEN map_insert(merged, package, new_term)
                  ELSE merged,
        kind |-> [tag |-> "DerivedFrom", a |-> incompat, b |-> satisfier_cause]]

\* is_terminal without the test of the package: any single term containing
\* the root version is terminal.
is_terminal_any_package(inc, root_pkg, root_ver) ==
    IF map_len(inc.terms) = 0 THEN TRUE
    ELSE IF map_len(inc.terms) > 1 THEN FALSE
    ELSE term_contains(inc.terms[1][2], root_ver)

is_terminal(inc, root_pkg, root_ver) ==
    IF map_len(inc.terms) = 0 THEN TRUE
    ELSE IF map_len(inc.terms) > 1 THEN FALSE
    ELSE inc.terms[1][1] = root_pkg /\ term_contains(inc.terms[1][2], root_ver)

RelSatisfied == [tag |-> "Satisfied", pkg |-> -1]

RelInconclusive == [tag |-> "Inconclusive", pkg |-> -1]

\* Relation of one incompatibility term against lookup tf (a function from
\* package id to the partial solution's term, NullTerm when untracked).
term_status(entry, tf) ==
    IF tf[entry[1]] = NullTerm THEN "Inconclusive"
    ELSE relation_with(entry[2], tf[entry[1]])

\* The loop of Incompatibility::relation counting a Contradicted term among
\* the unsettled ones.
RECURSIVE relation_scan_unsettled(_, _, _, _)
relation_scan_unsettled(terms, tf, i, rel) ==
    IF i > Len(terms) THEN rel
    ELSE IF term_status(terms[i], tf) = "Satisfied"
    THEN relation_scan_unsettled(terms, tf, i + 1, rel)
    ELSE IF rel.tag = "Satisfied"
    THEN relation_scan_unsettled(terms, tf, i + 1,
                                 [tag |-> "AlmostSatisfied", pkg |-> terms[i][1]])
    ELSE RelInconclusive

RECURSIVE relation_scan(_, _, _, _)
relation_scan(terms, tf, i, rel) ==
    IF i > Len(terms) THEN rel
    ELSE LET pkg == terms[i][1]
             r == term_status(terms[i], tf)
         IN IF r = "Satisfied" THEN relation_scan(terms, tf, i + 1, rel)
            ELSE IF r = "Contradicted" THEN [tag |-> "Contradicted", pkg |-> pkg]
            ELSE IF rel.tag = "Satisfied"
                 THEN relation_scan(terms, tf, i + 1, [tag |-> "AlmostSatisfied", pkg |-> pkg])
                 ELSE RelInconclusive

\* Incompatibility::relation.  The loop returns at the first Contradicted
\* term and at the second unsettled term, whichever the iteration meets
\* first.  With three or more terms the iteration order is that of a
\* std::unordered_map; contradictedFirst selects whether a Contradicted term
\* is met before the second unsettled one (relation_unordered, status[i]
\* being the status of the i-th term).
relation_unordered(terms, tf, contradictedFirst, status) ==
    LET C == {i \in 1..Len(terms) : status[i] = "Contradicted"}
        I == {i \in 1..Len(terms) : status[i] = "Inconclusive"}
    IN IF C # {} /\ Cardinality(I) >= 2
       THEN IF contradictedFirst
            THEN [tag |-> "Contradicted",
                  pkg |-> terms[CHOOSE i \in C : \A j \in C : i <= j][1]]
            ELSE RelInconclusive
       ELSE relation_scan(terms, tf, 1, RelSatisfied)

relation(inc, tf, contradictedFirst) ==
    IF Len(inc.terms) <= 2 THEN relation_scan(inc.terms, tf, 1, RelSatisfied)
    ELSE relation_unordered(inc.terms, tf, contradictedFirst,
                            [i \in 1..Len(inc.terms) |-> term_status(inc.terms[i], tf)])

(***************************************************************************)
(* Hash maps with a dynamic key set (std::unordered_map, std::map).        *)
(***************************************************************************)
EmptyMap == [x \in {} |-> 0]

Put(f, k, v) == [x \in (DOMAIN f) \cup {k} |-> IF x = k THEN v ELSE f[x]]

\* m[k] for a map of vectors, an absent key reading as the empty vector.
ListOf(m, k) == IF k \in DOMAIN m THEN m[k] ELSE << >>

SetMin(S) == CHOOSE x \in S : \A y \in S : x <= y

SetMax(S) == CHOOSE x \in S : \A y \in S : x >= y

(***************************************************************************)
(* AssignmentsIntersection, DatedDerivation, PackageAssignments            *)
(* (include/provider.h).                                                   *)
(***************************************************************************)
makeDecision(idx, v) ==
    [kind |-> "Decision", decision_global_index |-> idx, version |-> v, term |-> exact(v)]

makeDerivations(t) ==
    [kind |-> "Derivations", decision_global_index |-> 0, version |-> 0, term |-> t]

isDecision(ai) == ai.kind = "Decision"

\* potential_package_filter() # nullptr
has_potential_package_filter(ai) == ~ isDecision(ai) /\ is_positive(ai.term)

\* satisfier answering the latest of the dated derivations that are disjoint
\* from start_term.
satisfier_among_latest(pa, hits) ==
    LET dds == pa.dated_derivations
    IN IF hits # {}
       THEN LET dd == dds[SetMax(hits)]
            IN [cause |-> <<dd.cause>>, gidx |-> dd.global_index,
                dl |-> dd.decision_level, err |-> FALSE]
       ELSE [cause |-> << >>, gidx |-> pa.assignments_intersection.decision_global_index,
             dl |-> pa.highest_decision_level, err |-> FALSE]

\* PackageAssignments::satisfier.  The result is (cause, global index,
\* decision level); cause is << >> for std::nullopt; err marks the throw.
\* hits are the positions of the dated derivations whose accumulated
\* intersection is disjoint from start_term.
satisfier_among(pa, hits) ==
    LET dds == pa.dated_derivations
    IN IF hits # {}
       THEN LET dd == dds[SetMin(hits)]
            IN [cause |-> <<dd.cause>>, gidx |-> dd.global_index,
                dl |-> dd.decision_level, err |-> FALSE]
       ELSE IF isDecision(pa.assignments_intersection)
       THEN [cause |-> << >>, gidx |-> pa.assignments_intersection.decision_global_index,
             dl |-> pa.highest_decision_level, err |-> FALSE]
       ELSE IF Len(dds) > 0
       THEN [cause |-> <<dds[1].cause>>, gidx |-> dds[1].global_index,
             dl |-> dds[1].decision_level, err |-> FALSE]
       ELSE [cause |-> << >>, gidx |-> 0, dl |-> 0, err |-> TRUE]

satisfier(pa, start_term) ==
    satisfier_among(pa, {i \in 1..Len(pa.dated_derivations) :
                            term_is_disjoint(pa.dated_derivations[i].accumulated_intersection,
                                             start_term)})

(***************************************************************************)
(* PartialSolution (include/provider.h).  A partial solution is a record   *)
(* of its fields; package_assignments is a sequence of <<package id, pa>>. *)
(***************************************************************************)
EmptyPartialSolution ==
    [next_global_index |-> 0,
     current_decision_level |-> 0,
     has_ever_backtracked |-> FALSE,
     package_assignments |-> << >>,
     package_assignments_index_map |-> EmptyMap,
     prioritized_potential_packages |-> << >>,
     outdated_priorities |-> {}]

has_package_assignments(ps, package) ==
    package \in DOMAIN ps.package_assignments_index_map

index_of(ps, package) == ps.package_assignments_index_map[package]

find_package_assignments(ps, package) ==
    ps.package_assignments[index_of(ps, package) + 1][2]

\* NullTerm stands for the nullptr result.
term_intersection_for_package(ps, package) ==
    LET hits == {i \in 1..Len(ps.package_assignments) :
                    ps.package_assignments[i][1] = package}
    IN IF hits = {} THEN NullTerm
       ELSE ps.package_assignments[SetMin(hits)][2].assignments_intersection.term

\* The lookup handed to Incompatibility::relation, tabulated over the ids
\* 0..n-1 of the interned packages.
terms_lookup(ps, n) == [p \in 0..(n - 1) |-> term_intersection_for_package(ps, p)]

\* "" when add_decision runs to its end, else the logic_error it throws.
add_decision_error(ps, package, version) ==
    IF ~ has_package_assignments(ps, package)
    THEN "add_decision: package assignments not found"
    ELSE IF isDecision(find_package_assignments(ps, package).assignments_intersection)
    THEN "add_decision: package already has a decision"
    ELSE IF ~ term_contains(find_package_assignments(ps, package).assignments_intersection.term,
                            version)
    THEN "add_version version not contained in term"
    ELSE ""

\* add_decision leaving the entry where it is in package_assignments.
add_decision_in_place(ps, package, version) ==
    LET level == ps.current_decision_level + 1
        old_idx == index_of(ps, package)
        pa == find_package_assignments(ps, package)
        pa2 == [pa EXCEPT !.highest_decision_level = level,
                          !.assignments_intersection =
                              makeDecision(ps.next_global_index, version)]
    IN [ps EXCEPT
          !.current_decision_level = level,
          !.package_assignments = [ps.package_assignments EXCEPT ![old_idx + 1] = <<package, pa2>>],
          !.next_global_index = ps.next_global_index + 1]

add_decision(ps, package, version) ==
    LET new_idx == ps.current_decision_level
        level == ps.current_decision_level + 1
        old_idx == index_of(ps, package)
        pa == find_package_assignments(ps, package)
        pa2 == [pa EXCEPT !.highest_decision_level = level,
                          !.assignments_intersection =
                              makeDecision(ps.next_global_index, version)]
        vec == [ps.package_assignments EXCEPT ![old_idx + 1] = <<package, pa2>>]
        other == vec[new_idx + 1][1]
    IN [ps EXCEPT
          !.current_decision_level = level,
          !.package_assignments =
              IF old_idx # new_idx
              THEN [vec EXCEPT ![old_idx + 1] = vec[new_idx + 1],
                               ![new_idx + 1] = vec[old_idx + 1]]
              ELSE vec,
          !.package_assignments_index_map =
              IF old_idx # new_idx
              THEN Put(Put(ps.package_assignments_index_map, package, new_idx),
                       other, old_idx)
              ELSE ps.package_assignments_index_map,
          !.next_global_index = ps.next_global_index + 1]

add_derivation_error(ps, package) ==
    IF has_package_assignments(ps, package)
       /\ isDecision(find_package_assignments(ps, package).assignments_intersection)
    THEN "add_derivation: package already has a decision"
    ELSE ""

\* add_derivation recording the negated term of the cause as it is, whatever
\* the package had accumulated.
add_derivation_fresh(ps, package, cause, store) ==
    LET level == ps.current_decision_level
        first_term == negate(map_get(store[cause + 1].terms, package))
        dd == [global_index |-> ps.next_global_index,
               decision_level |-> level,
               cause |-> cause,
               accumulated_intersection |-> first_term]
    IN IF has_package_assignments(ps, package)
       THEN LET idx == index_of(ps, package)
                pa == find_package_assignments(ps, package)
                pa2 == [pa EXCEPT !.highest_decision_level = level,
                                  !.dated_derivations = Append(pa.dated_derivations, dd),
                                  !.assignments_intersection = makeDerivations(first_term)]
            IN [ps EXCEPT
                  !.next_global_index = ps.next_global_index + 1,
                  !.outdated_priorities =
                      IF is_positive(first_term)
                      THEN ps.outdated_priorities \cup {package}
                      ELSE ps.outdated_priorities,
                  !.package_assignments =
                      [ps.package_assignments EXCEPT ![idx + 1] = <<package, pa2>>]]
       ELSE LET pa == [smallest_decision_level |-> level,
                       highest_decision_level |-> level,
                       dated_derivations |-> <<dd>>,
                       assignments_intersection |-> makeDerivations(first_term)]
            IN [ps EXCEPT
                  !.next_global_index = ps.next_global_index + 1,
                  !.outdated_priorities =
                      IF is_positive(first_term)
                      THEN ps.outdated_priorities \cup {package}
                      ELSE ps.outdated_priorities,
                  !.package_assignments = Append(ps.package_assignments, <<package, pa>>),
                  !.package_assignments_index_map =
                      Put(ps.package_assignments_index_map, package,
                          Len(ps.package_assignments))]

add_derivation(ps, package, cause, store) ==
    LET level == ps.current_decision_level
        first_term == negate(map_get(store[cause + 1].terms, package))
    IN IF has_package_assignments(ps, package)
       THEN LET idx == index_of(ps, package)
                pa == find_package_assignments(ps, package)
                new_accumulated == term_intersection(pa.assignments_intersection.term,
                                                     first_term)
                dd == [global_index |-> ps.next_global_index,
                       decision_level |-> level,
                       cause |-> cause,
                       accumulated_intersection |-> new_accumulated]
                pa2 == [pa EXCEPT !.highest_decision_level = level,
                                  !.dated_derivations = Append(pa.dated_derivations, dd),
                                  !.assignments_intersection =
                                      makeDerivations(new_accumulated)]
            IN [ps EXCEPT
                  !.next_global_index = ps.next_global_index + 1,
                  !.outdated_priorities =
                      IF is_positive(new_accumulated)
                      THEN ps.outdated_priorities \cup {package}
                      ELSE ps.outdated_priorities,
                  !.package_assignments =
                      [ps.package_assignments EXCEPT ![idx + 1] = <<package, pa2>>]]
       ELSE LET dd == [global_index |-> ps.next_global_index,
                       decision_level |-> level,
                       cause |-> cause,
                       accumulated_intersection |-> first_term]
                pa == [smallest_decision_level |-> level,
                       highest_decision_level |-> level,
                       dated_derivations |-> <<dd>>,
                       assignments_intersection |-> makeDerivations(first_term)]
            IN [ps EXCEPT
                  !.next_global_index = ps.next_global_index + 1,
                  !.outdated_priorities =
                      IF is_positive(first_term)
                      THEN ps.outdated_priorities \cup {package}
                      ELSE ps.outdated_priorities,
                  !.package_assignments = Append(ps.package_assignments, <<package, pa>>),
                  !.package_assignments_index_map =
                      Put(ps.package_assignments_index_map, package,
                          Len(ps.package_assignments))]

\* Lexicographic "a < b" on equally long tuples of integers
\* (std::tuple / std::pair operator<).
RECURSIVE TupleLessFrom(_, _, _)
TupleLessFrom(a, b, i) ==
    IF i > Len(a) THEN FALSE
    ELSE IF a[i] < b[i] THEN TRUE
    ELSE IF a[i] > b[i] THEN FALSE
    ELSE TupleLessFrom(a, b, i + 1)

TupleLess(a, b) == TupleLessFrom(a, b, 1)

\* std::priority_queue<..., std::less<>>: kept as a sequence sorted from the
\* greatest element down, so that top()/pop() are Head/Tail.
heap_push(h, e) ==
    LET k == Cardinality({i \in 1..Len(h) : ~ TupleLess(h[i], e)})
    IN SubSeq(h, 1, k) \o <<e>> \o SubSeq(h, k + 1, Len(h))

\* First loop of pick_highest_priority_pkg: every outdated package that
\* still has a positive Derivations term is pushed with a fresh priority.
\* prio[p] is the value the prioritizer returns for p.
RECURSIVE push_outdated(_, _, _, _)
push_outdated(ps, todo, prio, h) ==
    IF todo = {} THEN h
    ELSE LET p == SetMin(todo)
             rest == todo \ {p}
         IN IF ~ has_package_assignments(ps, p) THEN push_outdated(ps, rest, prio, h)
            ELSE IF ~ has_potential_package_filter(
                          find_package_assignments(ps, p).assignments_intersection)
                 THEN push_outdated(ps, rest, prio, h)
                 ELSE push_outdated(ps, rest, prio, heap_push(h, prio[p] \o <<p, p>>))

\* Second loop: pop until a package with a positive Derivations term is on
\* top.  found = FALSE is std::nullopt.
RECURSIVE pop_candidate(_, _)
pop_candidate(ps, h) ==
    IF Len(h) = 0 THEN [found |-> FALSE, pkg |-> -1, range |-> RangesEmpty, heap |-> h]
    ELSE LET p == Head(h)[Len(Head(h))]
         IN IF ~ has_package_assignments(ps, p) THEN pop_candidate(ps, Tail(h))
            ELSE LET ai == find_package_assignments(ps, p).assignments_intersection
                 IN IF has_potential_package_filter(ai)
                    THEN [found |-> TRUE, pkg |-> p, range |-> ai.term.ranges,
                          heap |-> Tail(h)]
                    ELSE pop_candidate(ps, Tail(h))

pick_highest_priority_pkg(ps, prio) ==
    pop_candidate(ps, push_outdated(ps, ps.outdated_priorities, prio,
                                    ps.prioritized_potential_packages))

\* extract_solution: ok = FALSE is the "Derivations in the Decision part"
\* logic_error.
\* extract_solution reading the global index of the decision for its version.
extract_solution_index(ps) ==
    LET pas == ps.package_assignments
    IN [ok |-> \A i \in 1..Len(pas) : isDecision(pas[i][2].assignments_intersection),
        solution |-> {<<pas[i][1], pas[i][2].assignments_intersection.decision_global_index>> :
                         i \in {j \in 1..Len(pas) :
                                   isDecision(pas[j][2].assignments_intersection)}}]

extract_solution(ps) ==
    LET pas == ps.package_assignments
    IN [ok |-> \A i \in 1..Len(pas) : isDecision(pas[i][2].assignments_intersection),
        solution |-> {<<pas[i][1], pas[i][2].assignments_intersection.version>> :
                         i \in {j \in 1..Len(pas) :
                                   isDecision(pas[j][2].assignments_intersection)}}]

\* The while loop of backtrack popping one dated derivation at most.
pop_derivations_once(dds, decision_level) ==
    IF Len(dds) > 0 /\ dds[Len(dds)].decision_level > decision_level
    THEN SubSeq(dds, 1, Len(dds) - 1)
    ELSE dds

RECURSIVE pop_derivations(_, _)
pop_derivations(dds, decision_level) ==
    IF Len(dds) > 0 /\ dds[Len(dds)].decision_level > decision_level
    THEN pop_derivations(SubSeq(dds, 1, Len(dds) - 1), decision_level)
    ELSE dds

\* The loop of PartialSolution::backtrack over package_assignments;
\* acc = [vec |-> new_vec, out |-> outdated_priorities].
RECURSIVE backtrack_loop(_, _, _, _)
backtrack_loop(pas, i, decision_level, acc) ==
    IF i > Len(pas) THEN acc
    ELSE LET p == pas[i][1]
             pa == pas[i][2]
         IN IF pa.smallest_decision_level > decision_level
            THEN backtrack_loop(pas, i + 1, decision_level, acc)
            ELSE IF pa.highest_decision_level <= decision_level
            THEN backtrack_loop(pas, i + 1, decision_level,
                     [vec |-> Append(acc.vec, pas[i]),
                      out |-> IF has_potential_package_filter(pa.assignments_intersection)
                              THEN acc.out \cup {p} ELSE acc.out])
            ELSE LET dds == pop_derivations(pa.dated_derivations, decision_level)
                 IN IF Len(dds) = 0
                    THEN backtrack_loop(pas, i + 1, decision_level, acc)
                    ELSE LET last == dds[Len(dds)]
                             pa2 == [pa EXCEPT
                                       !.dated_derivations = dds,
                                       !.highest_decision_level = last.decision_level,
                                       !.assignments_intersection =
                                           makeDerivations(last.accumulated_intersection)]
                         IN backtrack_loop(pas, i + 1, decision_level,
                                [vec |-> Append(acc.vec, <<p, pa2>>),
                                 out |-> IF is_positive(last.accumulated_intersection)
                                         THEN acc.out \cup {p} ELSE acc.out])

\* PartialSolution::backtrack that lowers the level and keeps every assignment.
ps_backtrack_level_only(ps, decision_level) ==
    [ps EXCEPT !.current_decision_level = decision_level,
               !.has_ever_backtracked = TRUE]

\* PartialSolution::backtrack without the assignment to current_decision_level.
ps_backtrack_keep_level(ps, decision_level) ==
    LET acc == backtrack_loop(ps.package_assignments, 1, decision_level,
                              [vec |-> << >>, out |-> ps.outdated_priorities])
    IN [ps EXCEPT
          !.package_assignments = acc.vec,
          !.outdated_priorities = acc.out,
          !.package_assignments_index_map =
              [q \in {acc.vec[i][1] : i \in 1..Len(acc.vec)} |->
                  SetMax({i \in 1..Len(acc.vec) : acc.vec[i][1] = q}) - 1],
          !.has_ever_backtracked = TRUE]

\* PartialSolution::backtrack giving the indices of the dropped assignments
\* out again.
ps_backtrack_rewind(ps, decision_level) ==
    LET acc == backtrack_loop(ps.package_assignments, 1, decision_level,
                              [vec |-> << >>, out |-> ps.outdated_priorities])
    IN [ps EXCEPT
          !.current_decision_level = decision_level,
          !.next_global_index = ps.next_global_index - 1,
          !.package_assignments = acc.vec,
          !.outdated_priorities = acc.out,
          !.package_assignments_index_map =
              [q \in {acc.vec[i][1] : i \in 1..Len(acc.vec)} |->
                  SetMax({i \in 1..Len(acc.vec) : acc.vec[i][1] = q}) - 1],
          !.has_ever_backtracked = TRUE]

ps_backtrack(ps, decision_level) ==
    LET acc == backtrack_loop(ps.package_assignments, 1, decision_level,
                              [vec |-> << >>, out |-> ps.outdated_priorities])
    IN [ps EXCEPT
          !.current_decision_level = decision_level,
          !.package_assignments = acc.vec,
          !.outdated_priorities = acc.out,
          !.package_assignments_index_map =
              [q \in {acc.vec[i][1] : i \in 1..Len(acc.vec)} |->
                  SetMax({i \in 1..Len(acc.vec) : acc.vec[i][1] = q}) - 1],
          !.has_ever_backtracked = TRUE]

\* find_satisfier: the SatisfiedMap as a sequence of <<package, info>>.
\* A package without assignments makes find_satisfier throw (info.err).
find_satisfier(ps, incompat) ==
    [i \in 1..Len(incompat.terms) |->
        LET package == incompat.terms[i][1]
        IN <<package,
             IF has_package_assignments(ps, package)
             THEN satisfier(find_package_assignments(ps, package),
                            negate(incompat.terms[i][2]))
             ELSE [cause |-> << >>, gidx |-> 0, dl |-> 0, err |-> TRUE]>>]

\* The "gidx >= max_gidx" selection loop of satisfier_search.
RECURSIVE select_satisfier(_, _, _, _)
select_satisfier(satisfied_map, i, max_gidx, best) ==
    IF i > Len(satisfied_map) THEN best
    ELSE IF satisfied_map[i][2].gidx >= max_gidx
         THEN select_satisfier(satisfied_map, i + 1, satisfied_map[i][2].gidx, i)
         ELSE select_satisfier(satisfied_map, i + 1, max_gidx, best)

\* find_previous_satisfier: [level, err].
\* The end of find_previous_satisfier: the satisfier found for the rest of
\* the term replaces the entry of satisfier_package, and the level is the
\* highest decision level of the map, at least 1.
previous_satisfier_level(satisfied_map, satisfier_package, info2) ==
    LET map2 == map_insert(satisfied_map, satisfier_package, info2)
        max_dl == SetMax({0} \cup {map2[i][2].dl : i \in 1..Len(map2)})
    IN IF info2.err THEN [level |-> 0, err |-> TRUE]
       ELSE [level |-> IF max_dl < 1 THEN 1 ELSE max_dl, err |-> FALSE]

\* The term the satisfier accumulated: the negation of the cause's term of
\* satisfier_package, or the decision's term.
satisfier_accum_term(satisfier_pa, info, satisfier_package, store) ==
    IF info.cause # << >>
    THEN negate(map_get(store[info.cause[1] + 1].terms, satisfier_package))
    ELSE satisfier_pa.assignments_intersection.term

find_previous_satisfier(ps, incompat, satisfier_package, satisfied_map, store) ==
    LET satisfier_pa == find_package_assignments(ps, satisfier_package)
        info == map_get(satisfied_map, satisfier_package)
        incompat_term == map_get(incompat.terms, satisfier_package)
    IN IF info.cause = << >> /\ ~ isDecision(satisfier_pa.assignments_intersection)
       THEN [level |-> 0, err |-> TRUE]
       ELSE previous_satisfier_level(
                satisfied_map, satisfier_package,
                satisfier(satisfier_pa,
                          term_intersection(
                              satisfier_accum_term(satisfier_pa, info, satisfier_package,
                                                   store),
                              negate(incompat_term))))

\* satisfier_search: kind is "DifferentDecisionLevels" (with
\* previous_satisfier_level), "SameDecisionLevels" (with satisfier_cause),
\* "SameNoCause" when the Same branch dereferences an empty satisfier_cause,
\* or "error" when a logic_error is thrown on the way.
SearchError == [package |-> -1, kind |-> "error", previous_satisfier_level |-> 0,
                satisfier_cause |-> -1, satisfier_level |-> 0]

\* satisfier_search answering Same only when the previous level is above the
\* satisfier's.
search_result_strict(satisfier_package, satisfier_info, prev) ==
    IF prev.err THEN SearchError
       ELSE IF prev.level > satisfier_info.dl
       THEN [package |-> satisfier_package,
             kind |-> IF satisfier_info.cause = << >> THEN "SameNoCause"
                      ELSE "SameDecisionLevels",
             previous_satisfier_level |-> prev.level,
             satisfier_cause |-> IF satisfier_info.cause = << >> THEN -1
                                 ELSE satisfier_info.cause[1],
             satisfier_level |-> satisfier_info.dl]
       ELSE [package |-> satisfier_package,
             kind |-> "DifferentDecisionLevels",
             previous_satisfier_level |-> prev.level,
             satisfier_cause |-> -1,
             satisfier_level |-> satisfier_info.dl]

\* The end of satisfier_search: prev is what find_previous_satisfier answered
\* for the chosen satisfier.
search_result(satisfier_package, satisfier_info, prev) ==
    IF prev.err THEN SearchError
       ELSE IF prev.level >= satisfier_info.dl
       THEN [package |-> satisfier_package,
             kind |-> IF satisfier_info.cause = << >> THEN "SameNoCause"
                      ELSE "SameDecisionLevels",
             previous_satisfier_level |-> prev.level,
             satisfier_cause |-> IF satisfier_info.cause = << >> THEN -1
                                 ELSE satisfier_info.cause[1],
             satisfier_level |-> satisfier_info.dl]
       ELSE [package |-> satisfier_package,
             kind |-> "DifferentDecisionLevels",
             previous_satisfier_level |-> prev.level,
             satisfier_cause |-> -1,
             satisfier_level |-> satisfier_info.dl]

\* satisfier_search from the SatisfiedMap on; best is the position of the
\* satisfier with the greatest global index.
search_satisfied(ps, incompat, store, satisfied_map, best) ==
    IF \E i \in 1..Len(satisfied_map) : satisfied_map[i][2].err THEN SearchError
    ELSE search_result(satisfied_map[best][1], satisfied_map[best][2],
                       find_previous_satisfier(ps, incompat, satisfied_map[best][1],
                                               satisfied_map, store))

satisfier_search_in(ps, incompat, store, satisfied_map) ==
    search_satisfied(ps, incompat, store, satisfied_map,
                     select_satisfier(satisfied_map, 1, 0, 0))

satisfier_search(ps, incompat, store) ==
    satisfier_search_in(ps, incompat, store, find_satisfier(ps, incompat))

(***************************************************************************)
(* HashArena<P> / Arena<Incomp> (include/arena.h).  Both are sequences;    *)
(* the element with id i is at position i + 1.                             *)
(***************************************************************************)
arena_has(store, value) == \E i \in 1..Len(store) : store[i] = value

\* HashArena::alloc - the store after interning value.
hash_alloc_store(store, value) ==
    IF arena_has(store, value) THEN store ELSE Append(store, value)

\* HashArena::alloc - the id of value.
hash_alloc_id(store, value) ==
    IF arena_has(store, value)
    THEN (CHOOSE i \in 1..Len(store) : store[i] = value) - 1
    ELSE Len(store)

(***************************************************************************)
(* OfflineDependencyProvider (include/provider.h).  A provider is its      *)
(* dependencies_ map: package name |-> sequence, ascending by version, of  *)
(* [version, deps], deps being the std::map<P, VS> of that version as a    *)
(* sequence of <<package name, range>> ascending by name.  Package names   *)
(* are integers ordered as the names' std::less order.                     *)
(***************************************************************************)
provider_versions(pr, package) ==
    IF package \in DOMAIN pr THEN pr[package] ELSE << >>

\* choose_version answering the lowest version of the range.
choose_version_lowest(pr, package, range) ==
    LET vm == provider_versions(pr, package)
        hits == {i \in 1..Len(vm) : contains(range, vm[i].version)}
    IN IF hits = {} THEN << >> ELSE <<vm[SetMin(hits)].version>>

\* << >> stands for std::nullopt.
choose_version(pr, package, range) ==
    LET vm == provider_versions(pr, package)
        hits == {i \in 1..Len(vm) : contains(range, vm[i].version)}
    IN IF hits = {} THEN << >> ELSE <<vm[SetMax(hits)].version>>

get_dependencies(pr, package, version) ==
    LET vm == provider_versions(pr, package)
        hits == {i \in 1..Len(vm) : vm[i].version = version}
    IN IF hits = {} THEN [tag |-> "Unavailable", dependencies |-> << >>]
       ELSE [tag |-> "Available", dependencies |-> vm[SetMin(hits)].deps]

conflict_count(stats) ==
    stats.unit_propagation_affected + stats.unit_propagation_culprit
    + stats.dependencies_affected + stats.dependencies_culprit

\* Priority = pair<uint32_t, int32_t>.  The first component is written as
\* two numbers <<m, c>>: <<1, 0>> is numeric_limits<uint32_t>::max() and
\* <<0, c>> is the conflict count c, which keeps the pair's order.
prioritize(pr, package, range, stats) ==
    LET vm == provider_versions(pr, package)
        version_count == Cardinality({i \in 1..Len(vm) : contains(range, vm[i].version)})
    IN IF version_count = 0 THEN <<1, 0, 0>>
       ELSE <<0, conflict_count(stats), 0 - version_count>>

ZeroStats == [unit_propagation_affected |-> 0, unit_propagation_culprit |-> 0,
              dependencies_affected |-> 0, dependencies_culprit |-> 0]

StatsOf(tracker, p) == IF p \in DOMAIN tracker THEN tracker[p] ELSE ZeroStats

(***************************************************************************)
(* State<DP> (core.h).  The operators below work on a record st of the     *)
(* fields they change: incompatibility_store, incompatibilities,           *)
(* merged_dependencies.                                                    *)
(***************************************************************************)
remove_id(list, id) == SelectSeq(list, LAMBDA x : x # id)

\* The inner loop of merge_incompatibility that erases past_id from the
\* list of every package of the merged incompatibility.
RECURSIVE erase_past(_, _, _, _)
erase_past(incs, terms, i, past_id) ==
    IF i > Len(terms) THEN incs
    ELSE LET pkg == terms[i][1]
         IN IF pkg \in DOMAIN incs
            THEN erase_past(Put(incs, pkg, remove_id(incs[pkg], past_id)),
                            terms, i + 1, past_id)
            ELSE erase_past(incs, terms, i + 1, past_id)

\* The loop over deps_list; acc = [st, list, incomp, merged_any].
RECURSIVE merge_loop(_, _)
merge_loop(acc, k) ==
    IF k > Len(acc.list) THEN acc
    ELSE LET past_id == acc.list[k]
             store == acc.st.incompatibility_store
             maybe_merged == merge_dependents(store[acc.incomp + 1], store[past_id + 1])
         IN IF maybe_merged = << >> THEN merge_loop(acc, k + 1)
            ELSE LET new_id == Len(store)
                     store2 == Append(store, maybe_merged[1])
                 IN merge_loop(
                        [st |-> [acc.st EXCEPT
                                   !.incompatibility_store = store2,
                                   !.incompatibilities =
                                       erase_past(acc.st.incompatibilities,
                                                  maybe_merged[1].terms, 1, past_id)],
                         list |-> [acc.list EXCEPT ![k] = new_id],
                         incomp |-> new_id,
                         merged_any |-> TRUE],
                        k + 1)

RECURSIVE push_incomp(_, _, _, _)
push_incomp(incs, terms, i, incomp) ==
    IF i > Len(terms) THEN incs
    ELSE push_incomp(Put(incs, terms[i][1], Append(ListOf(incs, terms[i][1]), incomp)),
                     terms, i + 1, incomp)

\* merge_incompatibility that lists the incompatibility it was given, not
\* the merged one.
merge_incompatibility_given(st, incomp) ==
    LET dep == as_dependency(st.incompatibility_store[incomp + 1])
        acc == IF dep # << >>
               THEN merge_loop([st |-> st,
                                list |-> ListOf(st.merged_dependencies, dep[1]),
                                incomp |-> incomp,
                                merged_any |-> FALSE], 1)
               ELSE [st |-> st, list |-> << >>, incomp |-> incomp, merged_any |-> FALSE]
        st2 == IF dep # << >>
               THEN [acc.st EXCEPT !.merged_dependencies =
                        Put(acc.st.merged_dependencies, dep[1],
                            IF acc.merged_any THEN acc.list
                            ELSE Append(acc.list, acc.incomp))]
               ELSE st
    IN [st2 EXCEPT !.incompatibilities =
           push_incomp(st2.incompatibilities,
                       st2.incompatibility_store[incomp + 1].terms, 1, incomp)]

merge_incompatibility(st, incomp) ==
    LET dep == as_dependency(st.incompatibility_store[incomp + 1])
        acc == IF dep # << >>
               THEN merge_loop([st |-> st,
                                list |-> ListOf(st.merged_dependencies, dep[1]),
                                incomp |-> incomp,
                                merged_any |-> FALSE], 1)
               ELSE [st |-> st, list |-> << >>, incomp |-> incomp, merged_any |-> FALSE]
        st2 == IF dep # << >>
               THEN [acc.st EXCEPT !.merged_dependencies =
                        Put(acc.st.merged_dependencies, dep[1],
                            IF acc.merged_any THEN acc.list
                            ELSE Append(acc.list, acc.incomp))]
               ELSE st
    IN [st2 EXCEPT !.incompatibilities =
           push_incomp(st2.incompatibilities,
                       st2.incompatibility_store[acc.incomp + 1].terms, 1, acc.incomp)]

add_incompatibility(st, incompat) ==
    merge_incompatibility(
        [st EXCEPT !.incompatibility_store = Append(st.incompatibility_store, incompat)],
        Len(st.incompatibility_store))

\* The loop of add_package_version_dependencies; acc = [st, pkgs] with pkgs
\* the package_store.
RECURSIVE add_dependencies_loop(_, _, _, _, _)
add_dependencies_loop(acc, package, version, deps, i) ==
    IF i > Len(deps) THEN acc
    ELSE LET dep_p == deps[i][1]
             dep_v == deps[i][2]
             pkgs1 == hash_alloc_store(acc.pkgs, dep_p)
             dep_pid == hash_alloc_id(acc.pkgs, dep_p)
             pkgs2 == hash_alloc_store(pkgs1, package)
             pid == hash_alloc_id(pkgs1, package)
             incompat == from_dependency(pid, singleton(version), dep_pid, dep_v)
         IN add_dependencies_loop(
                [st |-> add_incompatibility(acc.st, incompat), pkgs |-> pkgs2],
                package, version, deps, i + 1)

\* add_package_version_incompatibilities that finds no new incompatibility
\* satisfied.
first_satisfied_none(ps, package, version, store, start_raw, end_raw, n) == << >>

\* add_package_version_incompatibilities: the first id of
\* start_raw..end_raw-1 whose relation, with exact(version) standing for
\* package, is Satisfied; << >> when there is none.
first_satisfied(ps, package, version, store, start_raw, end_raw, n) ==
    LET tf == [p \in 0..(n - 1) |->
                  IF p = package THEN exact(version)
                  ELSE term_intersection_for_package(ps, p)]
        hits == {id \in start_raw..(end_raw - 1) :
                    relation(store[id + 1], tf, TRUE).tag = "Satisfied"}
    IN IF hits = {} THEN << >> ELSE <<SetMin(hits)>>

(***************************************************************************)
(* The naive reference solver (src/cdcl_solver.cpp, second half).  Its     *)
(* state is the record d:                                                  *)
(*   assign  DPLLPartialSolution::assignments_map, package id -> version   *)
(*   pkgs    package_store                                                 *)
(*   nc      not_completed_dependencies, package name -> range             *)
(*   np      next_packages                                                 *)
(* Every call answers [ok, d, exc]: the bool it returns, the state it      *)
(* leaves, and whether it left by the "No versions available" throw.       *)
(***************************************************************************)
dpll_versions_desc(pr, package) ==
    LET vm == provider_versions(pr, package)
    IN [i \in 1..Len(vm) |-> vm[Len(vm) + 1 - i].version]

map_remove(f, k) == [x \in (DOMAIN f) \ {k} |-> f[x]]

\* The for loop over deps_result.dependencies (lines 241-274);
\* acc = [pkgs, nc, nnp, can_assign], nnp being new_next_packages.
RECURSIVE dpll_check_deps(_, _, _, _)
dpll_check_deps(acc, assign, deps, i) ==
    IF i > Len(deps) THEN acc
    ELSE LET dep_pkg == deps[i][1]
             dep_range == deps[i][2]
             dep_pkg_id == hash_alloc_id(acc.pkgs, dep_pkg)
             pkgs1 == hash_alloc_store(acc.pkgs, dep_pkg)
         IN IF dep_pkg_id \in DOMAIN assign
            THEN IF ~ contains(dep_range, assign[dep_pkg_id])
                 THEN [acc EXCEPT !.pkgs = pkgs1, !.can_assign = FALSE]
                 ELSE dpll_check_deps([acc EXCEPT !.pkgs = pkgs1], assign, deps, i + 1)
            ELSE dpll_check_deps(
                     [acc EXCEPT !.pkgs = pkgs1,
                                 !.nnp = Append(acc.nnp, dep_pkg_id),
                                 !.nc = Put(acc.nc, dep_pkg,
                                            IF dep_pkg \in DOMAIN acc.nc
                                            THEN intersection(acc.nc[dep_pkg], dep_range)
                                            ELSE dep_range)],
                     assign, deps, i + 1)

RECURSIVE dpll_try_versions(_, _, _, _, _)
RECURSIVE dpll_drain(_, _)

\* dpll_resolve(provider, partial_solution, package, ...), lines 198-328.
dpll_package(pr, d, package) ==
    IF Len(provider_versions(pr, package)) = 0
    THEN [ok |-> FALSE, d |-> d, exc |-> TRUE]
    ELSE dpll_try_versions(pr, d, package, dpll_versions_desc(pr, package), 1)

\* The while loop over next_packages (lines 297-315).
dpll_drain(pr, d) ==
    IF Len(d.np) = 0 THEN [ok |-> TRUE, d |-> d, exc |-> FALSE]
    ELSE LET next_pkg == d.np[Len(d.np)]
             r == dpll_package(pr, [d EXCEPT !.np = SubSeq(d.np, 1, Len(d.np) - 1)],
                               d.pkgs[next_pkg + 1])
         IN IF r.exc \/ ~ r.ok THEN r ELSE dpll_drain(pr, r.d)

\* The for loop over available_versions, highest first (lines 227-326).
dpll_try_versions(pr, d, package, vers, i) ==
    IF i > Len(vers) THEN [ok |-> FALSE, d |-> d, exc |-> FALSE]
    ELSE LET ver == vers[i]
             saved_not_completed == d.nc
             deps_result == get_dependencies(pr, package, ver)
             chk == dpll_check_deps([pkgs |-> d.pkgs, nc |-> d.nc, nnp |-> << >>,
                                     can_assign |-> TRUE],
                                    d.assign, deps_result.dependencies, 1)
             d1 == [d EXCEPT !.pkgs = chk.pkgs, !.nc = chk.nc]
             pkg_id == hash_alloc_id(d1.pkgs, package)
             d2 == [d1 EXCEPT !.pkgs = hash_alloc_store(d1.pkgs, package),
                              !.assign = Put(d1.assign, pkg_id, ver),
                              !.np = d1.np \o chk.nnp]
             r == dpll_drain(pr, d2)
         IN IF package \in DOMAIN d1.nc /\ ~ contains(d1.nc[package], ver)
            THEN \* continue: not_completed_dependencies is not restored
                 dpll_try_versions(pr, d1, package, vers, i + 1)
            ELSE IF ~ chk.can_assign
            THEN dpll_try_versions(pr, [d1 EXCEPT !.nc = saved_not_completed],
                                   package, vers, i + 1)
            ELSE IF r.exc \/ r.ok THEN r
            ELSE dpll_try_versions(
                     pr,
                     [r.d EXCEPT !.assign = map_remove(r.d.assign, pkg_id),
                                 !.nc = saved_not_completed],
                     package, vers, i + 1)

\* dpll_resolve(provider, package, version), lines 330-384: found is FALSE
\* for either throw; the version argument is not used by the code.
dpll_resolve(pr, package, version) ==
    LET r == dpll_package(pr, [assign |-> EmptyMap, pkgs |-> <<package>>,
                               nc |-> EmptyMap, np |-> << >>], package)
    IN [found |-> r.ok /\ ~ r.exc,
        result |-> IF r.ok /\ ~ r.exc
                   THEN {<<r.d.pkgs[id + 1], r.d.assign[id]>> : id \in DOMAIN r.d.assign}
                   ELSE {}]

(***************************************************************************)
(* The resolver as a state machine.  One run of resolve(provider, root,    *)
(* root_version): pc is the position of the driver                         *)
(*   "propagate"  at the head of the while loop of unit_propagation,       *)
(*   "conflict"   at the head of the while loop of conflict_resolution,    *)
(*   "decide"     in resolve(), right after unit_propagation returned,     *)
(*   "done"       resolve() returned result,                               *)
(*   "failed"     resolve() left with the "Conflict at root package"       *)
(*                runtime_error (no solution),                             *)
(*   "error"      resolve() left with a logic_error (error names it).      *)
(***************************************************************************)
VARIABLES
    provider,                       \* dependency_provider.dependencies_
    root_name,                      \* the package passed to resolve
    root_package,                   \* State::root_package
    root_version,                   \* State::root_version
    package_store,                  \* State::package_store
    incompatibility_store,          \* State::incompatibility_store
    incompatibilities,              \* State::incompatibilities
    contradicted_incompatibilities, \* State::contradicted_incompatibilities
    merged_dependencies,            \* State::merged_dependencies
    partial_solution,               \* State::partial_solution
    unit_propagation_buffer,        \* State::unit_propagation_buffer
    satisfier_causes,               \* satisfier_causes of unit_propagation
    conflict_tracker,               \* resolve: conflict_tracker
    added_dependencies,             \* resolve: added_dependencies
    next,                           \* resolve: next
    current_incompat_id,            \* conflict_resolution: current_incompat_id
    current_incompat_changed,       \* conflict_resolution: current_incompat_changed
    pc,
    result,                         \* the map resolve() returns
    error,                          \* what() of the exception, "" if none
    wild_reads,                     \* reads of an empty satisfier_cause so far
    steps,                          \* number of steps taken so far
    term_a,                         \* a Term<V> value: the receiver of a Term or Ranges call
    term_b                          \* a Term<V> value: the argument of the call

vars == <<provider, root_name, root_package, root_version, package_store,
          incompatibility_store, incompatibilities, contradicted_incompatibilities,
          merged_dependencies, partial_solution, unit_propagation_buffer,
          satisfier_causes, conflict_tracker, added_dependencies, next,
          current_incompat_id, current_incompat_changed, pc, result, error,
          wild_reads, steps, term_a, term_b>>

term_vars == <<term_a, term_b>>

solver_vars == <<provider, root_name, root_package, root_version, package_store,
                 incompatibility_store, incompatibilities, contradicted_incompatibilities,
                 merged_dependencies, partial_solution, unit_propagation_buffer,
                 satisfier_causes, conflict_tracker, added_dependencies, next,
                 current_incompat_id, current_incompat_changed, pc, result, error,
                 wild_reads>>

input_vars == <<provider, root_name, root_package, root_version>>

StateRec == [incompatibility_store |-> incompatibility_store,
             incompatibilities |-> incompatibilities,
             merged_dependencies |-> merged_dependencies]

\* One pass of the for loop of unit_propagation for the incompatibility
\* incompat_id whose relation is rel (core.h lines 229-250);
\* acc = [ps, contradicted, buffer, conflict_id, err].
propagate_relation(acc, incompat_id, rel, store) ==
    IF rel.tag = "Satisfied"
    THEN [acc EXCEPT !.conflict_id = <<incompat_id>>]
    ELSE IF rel.tag = "AlmostSatisfied"
    THEN LET package_almost == rel.pkg
             buffer2 == IF \E j \in 1..Len(acc.buffer) : acc.buffer[j] = package_almost
                        THEN acc.buffer
                        ELSE Append(acc.buffer, package_almost)
         IN IF add_derivation_error(acc.ps, package_almost) # ""
            THEN [acc EXCEPT !.buffer = buffer2,
                             !.err = add_derivation_error(acc.ps, package_almost)]
            ELSE [acc EXCEPT
                    !.buffer = buffer2,
                    !.ps = add_derivation(acc.ps, package_almost, incompat_id, store),
                    !.contradicted = Put(acc.contradicted, incompat_id,
                                         acc.ps.current_decision_level)]
    ELSE IF rel.tag = "Contradicted"
    THEN [acc EXCEPT !.contradicted = Put(acc.contradicted, incompat_id,
                                          acc.ps.current_decision_level)]
    ELSE acc

\* The for loop of unit_propagation over incompatibilities[current_package],
\* newest first (k runs from Len(list) down to 1); an incompatibility that
\* is already recorded as contradicted is skipped.
RECURSIVE propagation_scan(_, _, _, _, _, _)
propagation_scan(list, k, acc, store, n, contradictedFirst) ==
    IF k < 1 \/ acc.err # "" THEN acc
    ELSE IF list[k] \in DOMAIN acc.contradicted
    THEN propagation_scan(list, k - 1, acc, store, n, contradictedFirst)
    ELSE propagation_scan(
             list, k - 1,
             propagate_relation(acc, list[k],
                                relation(store[list[k] + 1], terms_lookup(acc.ps, n),
                                         contradictedFirst),
                                store),
             store, n, contradictedFirst)

(***************************************************************************)
(* One pass of the while loop of State::unit_propagation: pop a package,   *)
(* scan its incompatibilities, then either enter conflict_resolution,      *)
(* continue with the next buffered package, or return to resolve().        *)
(***************************************************************************)
UnitPropagation ==
    /\ pc = "propagate"
    /\ \E contradictedFirst \in BOOLEAN :
       \E acc \in {propagation_scan(
                       ListOf(incompatibilities,
                              unit_propagation_buffer[Len(unit_propagation_buffer)]),
                       Len(ListOf(incompatibilities,
                                  unit_propagation_buffer[Len(unit_propagation_buffer)])),
                       [ps |-> partial_solution,
                        contradicted |-> contradicted_incompatibilities,
                        buffer |-> SubSeq(unit_propagation_buffer, 1,
                                          Len(unit_propagation_buffer) - 1),
                        conflict_id |-> << >>,
                        err |-> ""],
                       incompatibility_store, Len(package_store), contradictedFirst)} :
           /\ partial_solution' = acc.ps
           /\ contradicted_incompatibilities' = acc.contradicted
           /\ unit_propagation_buffer' = acc.buffer
           /\ error' = acc.err
           /\ IF acc.err # ""
              THEN /\ pc' = "error"
                   /\ UNCHANGED <<current_incompat_id, current_incompat_changed>>
              ELSE IF acc.conflict_id # << >>
              THEN /\ pc' = "conflict"
                   /\ current_incompat_id' = acc.conflict_id[1]
                   /\ current_incompat_changed' = FALSE
              ELSE /\ pc' = IF Len(acc.buffer) = 0 THEN "decide" ELSE "propagate"
                   /\ UNCHANGED <<current_incompat_id, current_incompat_changed>>
    /\ steps' = steps + 1
    /\ UNCHANGED <<input_vars, package_store, incompatibility_store, incompatibilities,
                   merged_dependencies, satisfier_causes, conflict_tracker,
                   added_dependencies, next, result, wild_reads>>

\* State::backtrack leaving the cache of contradicted incompatibilities as it is.
retain_contradicted_all(contradicted, decision_level) == contradicted

\* State::backtrack without the merge: the contradicted entries that stay.
\* State::backtrack erasing the entries recorded at decision_level as well.
retain_contradicted_below(contradicted, decision_level) ==
    [id \in {x \in DOMAIN contradicted : ~ (contradicted[x] >= decision_level)} |->
        contradicted[id]]

retain_contradicted(contradicted, decision_level) ==
    [id \in {x \in DOMAIN contradicted : ~ (contradicted[x] > decision_level)} |->
        contradicted[id]]

\* The number of reads of an empty satisfier_cause whose every outcome is
\* followed in one run.
MaxWildReads == 1

\* SatisfierSearch::Same(*satisfier_cause): the ids the dereference can
\* yield.  When the satisfier is a decision the optional is empty and the
\* read is undefined: any id of the store, or one past it (Len(store)) for
\* every value outside the store.  After MaxWildReads such reads only the
\* out-of-range outcome is followed.
dereferenced_cause(search, store, reads) ==
    IF search.kind = "SameNoCause"
    THEN IF reads < MaxWildReads THEN 0..Len(store) ELSE {Len(store)}
    ELSE {search.satisfier_cause}

(***************************************************************************)
(* One pass of the while loop of State::conflict_resolution.  On           *)
(* DifferentDecisionLevels the pass also covers the return into            *)
(* unit_propagation (lines 254-262): the buffer is reset to the pivot, the *)
(* root cause is added as a derivation and recorded as contradicted.       *)
(***************************************************************************)
ConflictResolution ==
    /\ pc = "conflict"
    /\ IF is_terminal(incompatibility_store[current_incompat_id + 1],
                      root_package, root_version)
       THEN /\ pc' = "failed"
            /\ error' = "Conflict at root package during unit propagation"
            /\ UNCHANGED <<incompatibility_store, incompatibilities,
                           contradicted_incompatibilities, merged_dependencies,
                           partial_solution, unit_propagation_buffer,
                           satisfier_causes, current_incompat_id,
                           current_incompat_changed, wild_reads>>
       ELSE \E search \in {satisfier_search(partial_solution,
                                            incompatibility_store[current_incompat_id + 1],
                                            incompatibility_store)} :
            /\ wild_reads' = IF search.kind = "SameNoCause" THEN wild_reads + 1
                             ELSE wild_reads
            /\ IF search.kind = "error"
               THEN /\ pc' = "error"
                    /\ error' = "satisfier_search: logic_error"
                    /\ UNCHANGED <<incompatibility_store, incompatibilities,
                                   contradicted_incompatibilities, merged_dependencies,
                                   partial_solution, unit_propagation_buffer,
                                   satisfier_causes, current_incompat_id,
                                   current_incompat_changed>>
               ELSE IF search.kind = "DifferentDecisionLevels"
               THEN \E ps1 \in {ps_backtrack(partial_solution,
                                              search.previous_satisfier_level)},
                       contradicted1 \in {retain_contradicted(
                                              contradicted_incompatibilities,
                                              search.previous_satisfier_level)},
                       st1 \in {IF current_incompat_changed
                                THEN merge_incompatibility(StateRec, current_incompat_id)
                                ELSE StateRec} :
                    /\ incompatibility_store' = st1.incompatibility_store
                    /\ incompatibilities' = st1.incompatibilities
                    /\ merged_dependencies' = st1.merged_dependencies
                    /\ satisfier_causes' = Append(satisfier_causes,
                                                  <<search.package, current_incompat_id>>)
                    /\ unit_propagation_buffer' = <<search.package>>
                    /\ UNCHANGED <<current_incompat_id, current_incompat_changed>>
                    /\ IF add_derivation_error(ps1, search.package) # ""
                       THEN /\ pc' = "error"
                            /\ error' = add_derivation_error(ps1, search.package)
                            /\ partial_solution' = ps1
                            /\ contradicted_incompatibilities' = contradicted1
                       ELSE /\ pc' = "propagate"
                            /\ error' = ""
                            /\ partial_solution' =
                                   add_derivation(ps1, search.package, current_incompat_id,
                                                  st1.incompatibility_store)
                            /\ contradicted_incompatibilities' =
                                   Put(contradicted1, current_incompat_id,
                                       ps1.current_decision_level)
               ELSE \E satisfier_cause \in dereferenced_cause(search, incompatibility_store,
                                                            wild_reads) :
                    IF satisfier_cause >= Len(incompatibility_store)
                    THEN \* Arena::operator[]: assert(i < data_.size())
                         /\ pc' = "error"
                         /\ error' = "Arena: id out of range"
                         /\ UNCHANGED <<incompatibility_store, incompatibilities,
                                        contradicted_incompatibilities, merged_dependencies,
                                        partial_solution, unit_propagation_buffer,
                                        satisfier_causes, current_incompat_id,
                                        current_incompat_changed>>
                    ELSE /\ incompatibility_store' =
                                Append(incompatibility_store,
                                       prior_cause(current_incompat_id, satisfier_cause,
                                                   search.package, incompatibility_store))
                         /\ current_incompat_id' = Len(incompatibility_store)
                         /\ satisfier_causes' =
                                Append(satisfier_causes,
                                       <<search.package, Len(incompatibility_store)>>)
                         /\ current_incompat_changed' = TRUE
                         /\ pc' = "conflict"
                         /\ error' = ""
                         /\ UNCHANGED <<incompatibilities, contradicted_incompatibilities,
                                        merged_dependencies, partial_solution,
                                        unit_propagation_buffer>>
    /\ steps' = steps + 1
    /\ UNCHANGED <<input_vars, package_store, conflict_tracker, added_dependencies,
                   next, result>>

\* cdcl_solver.cpp lines 31-44: the statistics of one (affected, incompat)
\* pair of satisfier_causes.
RECURSIVE bump_culprits(_, _, _, _, _)
bump_culprits(tracker, terms, i, affected, field) ==
    IF i > Len(terms) THEN tracker
    ELSE LET q == terms[i][1]
         IN IF q = affected THEN bump_culprits(tracker, terms, i + 1, affected, field)
            ELSE bump_culprits(
                     Put(tracker, q,
                         IF field = "unit_propagation_culprit"
                         THEN [StatsOf(tracker, q) EXCEPT !.unit_propagation_culprit = @ + 1]
                         ELSE [StatsOf(tracker, q) EXCEPT !.dependencies_culprit = @ + 1]),
                     terms, i + 1, affected, field)

RECURSIVE track_causes(_, _, _, _)
track_causes(tracker, causes, i, store) ==
    IF i > Len(causes) THEN tracker
    ELSE LET affected == causes[i][1]
             incompat == causes[i][2]
             t1 == Put(tracker, affected,
                       [StatsOf(tracker, affected) EXCEPT !.unit_propagation_affected = @ + 1])
         IN track_causes(
                bump_culprits(t1, store[incompat + 1].terms, 1, affected,
                              "unit_propagation_culprit"),
                causes, i + 1, store)

\* cdcl_solver.cpp lines 117-127.
track_dependency_conflict(tracker, pid, incompat, store) ==
    bump_culprits(
        Put(tracker, pid, [StatsOf(tracker, pid) EXCEPT !.dependencies_affected = @ + 1]),
        store[incompat + 1].terms, 1, pid, "dependencies_culprit")

\* The prioritizer lambda of resolve (lines 46-51), tabulated per package id.
prioritizer(pr, pkgs, ps, tracker) ==
    [p \in 0..(Len(pkgs) - 1) |->
        IF has_package_assignments(ps, p)
        THEN prioritize(pr, pkgs[p + 1],
                        find_package_assignments(ps, p).assignments_intersection.term.ranges,
                        StatsOf(tracker, p))
        ELSE <<0, 0, 0>>]

(***************************************************************************)
(* The body of the while loop of resolve() after unit_propagation returned *)
(* (cdcl_solver.cpp lines 31-132), as the record of the values it leaves.  *)
(* It is written in stages, each receiving what the lines before it have   *)
(* computed: tracker1 the statistics, pick the picked package, ps1 the     *)
(* partial solution after the pick, base the outcome when nothing else     *)
(* changes, name the picked package's name, v the chosen version.          *)
(***************************************************************************)
\* Lines 116-132: conflict is what add_package_version_dependencies answered.
resolve_added(base, ps1, tracker1, v, ingested, pid, conflict) ==
    IF conflict # << >>
    THEN [base EXCEPT !.st = ingested.st, !.pkgs = ingested.pkgs,
                      !.tracker = track_dependency_conflict(
                                      tracker1, pid, conflict[1],
                                      ingested.st.incompatibility_store)]
    ELSE IF add_decision_error(ps1, pid, v) # ""
    THEN [base EXCEPT !.st = ingested.st, !.pkgs = ingested.pkgs,
                      !.pc = "error", !.error = add_decision_error(ps1, pid, v)]
    ELSE [base EXCEPT !.st = ingested.st, !.pkgs = ingested.pkgs,
                      !.ps = add_decision(ps1, pid, v)]

\* add_package_version_dependencies after its loop (core.h lines 126-132):
\* ingested = [st, pkgs] is what the loop left, start_raw the store's size
\* before it.
resolve_ingested(base, ps1, tracker1, name, v, start_raw, ingested) ==
    LET pid == hash_alloc_id(ingested.pkgs, name)
    IN resolve_added(base, ps1, tracker1, v, ingested, pid,
                     IF ~ ps1.has_ever_backtracked THEN << >>
                     ELSE first_satisfied(ps1, pid, v, ingested.st.incompatibility_store,
                                          start_raw,
                                          Len(ingested.st.incompatibility_store),
                                          Len(ingested.pkgs)))

\* resolve() leaving with an error when the dependencies are unavailable.
resolve_dependencies_abort(base, ps1, tracker1, pick, name, v, deps_result) ==
    IF deps_result.tag = "Unavailable"
    THEN [base EXCEPT !.pc = "error", !.error = "dependencies unavailable"]
    ELSE resolve_ingested(base, ps1, tracker1, name, v, Len(incompatibility_store),
                          add_dependencies_loop([st |-> StateRec, pkgs |-> package_store],
                                                name, v, deps_result.dependencies, 1))

\* Lines 93-116: the version is new, deps_result are its dependencies.
resolve_dependencies(base, ps1, tracker1, pick, name, v, deps_result) ==
    IF deps_result.tag = "Unavailable"
    THEN [base EXCEPT !.st = add_incompatibility(
                                 StateRec, no_versions(pick.pkg, Positive(singleton(v))))]
    ELSE resolve_ingested(base, ps1, tracker1, name, v, Len(incompatibility_store),
                          add_dependencies_loop([st |-> StateRec, pkgs |-> package_store],
                                                name, v, deps_result.dependencies, 1))

\* resolve() taking the version choose_version answered without looking at
\* the range.
resolve_version_unchecked(base, ps1, tracker1, pick, name, v, deps_result) ==
    LET tried == IF pick.pkg \in DOMAIN added_dependencies
                 THEN added_dependencies[pick.pkg] ELSE {}
    IN IF v \notin tried
       THEN resolve_dependencies(
                [base EXCEPT !.added = Put(added_dependencies, pick.pkg, tried \cup {v})],
                ps1, tracker1, pick, name, v, deps_result)
       ELSE IF add_decision_error(ps1, pick.pkg, v) # ""
       THEN [base EXCEPT !.pc = "error", !.error = add_decision_error(ps1, pick.pkg, v)]
       ELSE [base EXCEPT !.ps = add_decision(ps1, pick.pkg, v)]

\* Lines 83-132: v is the version choose_version answered, deps_result what
\* get_dependencies answers for it.
resolve_version(base, ps1, tracker1, pick, name, v, deps_result) ==
    LET tried == IF pick.pkg \in DOMAIN added_dependencies
                 THEN added_dependencies[pick.pkg] ELSE {}
    IN IF ~ contains(pick.range, v)
       THEN [base EXCEPT !.pc = "error", !.error = "choose_version outside of range"]
       ELSE IF v \notin tried
       THEN resolve_dependencies(
                [base EXCEPT !.added = Put(added_dependencies, pick.pkg, tried \cup {v})],
                ps1, tracker1, pick, name, v, deps_result)
       ELSE IF add_decision_error(ps1, pick.pkg, v) # ""
       THEN [base EXCEPT !.pc = "error", !.error = add_decision_error(ps1, pick.pkg, v)]
       ELSE [base EXCEPT !.ps = add_decision(ps1, pick.pkg, v)]

\* Lines 68-81: decision is what choose_version answered.
resolve_decision(base, ps1, tracker1, pick, name, decision) ==
    IF decision = << >>
    THEN [base EXCEPT !.st = add_incompatibility(
                                 StateRec, no_versions(pick.pkg, Positive(pick.range)))]
    ELSE resolve_version(base, ps1, tracker1, pick, name, decision[1],
                         get_dependencies(provider, name, decision[1]))

\* Lines 52-70: the return of the solution when nothing is picked, else
\* choose_version for the picked package.
resolve_pick(base, ps1, tracker1, pick, sol) ==
    IF ~ pick.found
    THEN IF sol.ok
         THEN [base EXCEPT !.pc = "done", !.next = next,
                           !.result = {<<package_store[e[1] + 1], e[2]>> : e \in sol.solution}]
         ELSE [base EXCEPT !.pc = "error", !.next = next,
                           !.error = "Derivations in the Decision part"]
    ELSE resolve_decision(base, ps1, tracker1, pick, package_store[pick.pkg + 1],
                          choose_version(provider, package_store[pick.pkg + 1], pick.range))

\* pick_highest_priority_pkg leaves the heap without the popped entries and
\* no outdated priority.
resolve_picked(tracker1, pick, ps1) ==
    resolve_pick([pc |-> "propagate", error |-> "", st |-> StateRec, pkgs |-> package_store,
                  ps |-> ps1, tracker |-> tracker1, added |-> added_dependencies,
                  next |-> pick.pkg, result |-> {}],
                 ps1, tracker1, pick, extract_solution(ps1))

\* Lines 45-51: pick is what pick_highest_priority_pkg answered.
resolve_tracked(tracker1, pick) ==
    resolve_picked(tracker1, pick,
                   [partial_solution EXCEPT !.outdated_priorities = {},
                                            !.prioritized_potential_packages = pick.heap])

\* Lines 31-44: tracker1 is the conflict_tracker after the statistics.
resolve_statistics(tracker1) ==
    resolve_tracked(tracker1,
                    pick_highest_priority_pkg(
                        partial_solution,
                        prioritizer(provider, package_store, partial_solution, tracker1)))

DecideOutcome ==
    resolve_statistics(track_causes(conflict_tracker, satisfier_causes, 1,
                                    incompatibility_store))

(***************************************************************************)
(* resolve(): statistics, pick_highest_priority_pkg, choose_version,       *)
(* dependency ingestion and the decision; then the entry into the next     *)
(* unit_propagation(next) (buffer reset to next, satisfier_causes empty).  *)
(***************************************************************************)
Decide ==
    /\ pc = "decide"
    /\ \E o \in {DecideOutcome} :
          /\ pc' = o.pc
          /\ error' = o.error
          /\ incompatibility_store' = o.st.incompatibility_store
          /\ incompatibilities' = o.st.incompatibilities
          /\ merged_dependencies' = o.st.merged_dependencies
          /\ package_store' = o.pkgs
          /\ partial_solution' = o.ps
          /\ conflict_tracker' = o.tracker
          /\ added_dependencies' = o.added
          /\ next' = o.next
          /\ result' = o.result
          /\ unit_propagation_buffer' =
                 IF o.pc = "propagate" THEN <<o.next>> ELSE unit_propagation_buffer
          /\ satisfier_causes' = IF o.pc = "propagate" THEN << >> ELSE satisfier_causes
    /\ steps' = steps + 1
    /\ UNCHANGED <<input_vars, contradicted_incompatibilities, current_incompat_id,
                   current_incompat_changed, wild_reads>>

(***************************************************************************)
(* resolve() against a provider of a class derived from                    *)
(* OfflineDependencyProvider: choose_version and get_dependencies are      *)
(* virtual (provider.h lines 154 and 171, "override"), and resolve() calls *)
(* them through a reference.  dp holds what the derived class answers at   *)
(* one call: dp.choose = <<v>> when its choose_version answers v (<< >>    *)
(* when it leaves the answer to the base class), dp.unavailable when its   *)
(* get_dependencies answers Unavailable.                                   *)
(***************************************************************************)
MaxOverrideVersion == 2

Overrides ==
    [choose : {<< >>} \cup {<<v>> : v \in 0..MaxOverrideVersion}, unavailable : BOOLEAN]

dp_choose_version(dp, pr, package, range) ==
    IF dp.choose # << >> THEN dp.choose ELSE choose_version(pr, package, range)

dp_get_dependencies(dp, pr, package, version) ==
    IF dp.unavailable THEN [tag |-> "Unavailable", dependencies |-> << >>]
    ELSE get_dependencies(pr, package, version)

\* Lines 68-132 with the derived provider's answers.
derived_decision(base, ps1, tracker1, pick, name, decision, dp) ==
    IF decision = << >>
    THEN resolve_decision(base, ps1, tracker1, pick, name, decision)
    ELSE resolve_version(base, ps1, tracker1, pick, name, decision[1],
                         dp_get_dependencies(dp, provider, name, decision[1]))

\* Lines 52-70.
derived_pick(base, ps1, tracker1, pick, sol, dp) ==
    IF ~ pick.found
    THEN resolve_pick(base, ps1, tracker1, pick, sol)
    ELSE derived_decision(base, ps1, tracker1, pick, package_store[pick.pkg + 1],
                          dp_choose_version(dp, provider, package_store[pick.pkg + 1],
                                            pick.range),
                          dp)

derived_picked(tracker1, pick, ps1, dp) ==
    derived_pick([pc |-> "propagate", error |-> "", st |-> StateRec, pkgs |-> package_store,
                  ps |-> ps1, tracker |-> tracker1, added |-> added_dependencies,
                  next |-> pick.pkg, result |-> {}],
                 ps1, tracker1, pick, extract_solution(ps1), dp)

derived_tracked(tracker1, pick, dp) ==
    derived_picked(tracker1, pick,
                   [partial_solution EXCEPT !.outdated_priorities = {},
                                            !.prioritized_potential_packages = pick.heap],
                   dp)

derived_statistics(tracker1, dp) ==
    derived_tracked(tracker1,
                    pick_highest_priority_pkg(
                        partial_solution,
                        prioritizer(provider, package_store, partial_solution, tracker1)),
                    dp)

DerivedOutcome(dp) ==
    derived_statistics(track_causes(conflict_tracker, satisfier_causes, 1,
                                    incompatibility_store), dp)

\* Decide with the answers of a derived provider.
DecideDerived ==
    /\ pc = "decide"
    /\ \E dp \in Overrides :
       \E o \in {DerivedOutcome(dp)} :
          /\ pc' = o.pc
          /\ error' = o.error
          /\ incompatibility_store' = o.st.incompatibility_store
          /\ incompatibilities' = o.st.incompatibilities
          /\ merged_dependencies' = o.st.merged_dependencies
          /\ package_store' = o.pkgs
          /\ partial_solution' = o.ps
          /\ conflict_tracker' = o.tracker
          /\ added_dependencies' = o.added
          /\ next' = o.next
          /\ result' = o.result
          /\ unit_propagation_buffer' =
                 IF o.pc = "propagate" THEN <<o.next>> ELSE unit_propagation_buffer
          /\ satisfier_causes' = IF o.pc = "propagate" THEN << >> ELSE satisfier_causes
    /\ steps' = steps + 1
    /\ UNCHANGED <<input_vars, contradicted_incompatibilities, current_incompat_id,
                   current_incompat_changed, wild_reads>>

(***************************************************************************)
(* Provider instances.  PV(v, deps) is one add_dependencies(pkg, v, deps)  *)
(* call; each instance is [pr, root, version], the arguments of resolve(). *)
(***************************************************************************)
PV(v, deps) == [version |-> v, deps |-> deps]

Table(names, rows) == [x \in names |-> rows[x]]

\* tests: test_no_conflict.  bar = 1, foo = 2, root = 3.
NoConflict ==
    [pr |-> Table(1..3,
            << <<PV(1, << >>), PV(2, << >>)>>,
               <<PV(1, << <<1, between(1, 3)>> >>)>>,
               <<PV(1, << <<2, between(1, 3)>> >>)>> >>),
     root |-> 3, version |-> 1]

\* tests: test_avoiding_conflict_during_decision_making.
\* bar = 1, foo = 2, root = 3.
AvoidingConflict ==
    [pr |-> Table(1..3,
            << <<PV(10, << >>), PV(11, << >>), PV(20, << >>)>>,
               <<PV(10, << >>), PV(11, << <<1, between(20, 30)>> >>)>>,
               <<PV(1, << <<1, between(10, 20)>>, <<2, between(10, 20)>> >>)>> >>),
     root |-> 3, version |-> 1]

\* tests: test_conflict_resolution, root 1 -> foo >= 1 (VS::higher_than(1)).
\* bar = 1, foo = 2, root = 3.
ConflictResolutionTest ==
    [pr |-> Table(1..3,
            << <<PV(1, << <<2, between(1, 2)>> >>)>>,
               <<PV(1, << >>), PV(2, << <<1, between(1, 2)>> >>)>>,
               <<PV(1, << <<2, higher_than(1)>> >>)>> >>),
     root |-> 3, version |-> 1]

\* The same instance with root 1 -> foo > 1 (strictly higher than 1).
ConflictResolutionStrict ==
    [pr |-> Table(1..3,
            << <<PV(1, << <<2, between(1, 2)>> >>)>>,
               <<PV(1, << >>), PV(2, << <<1, between(1, 2)>> >>)>>,
               <<PV(1, << <<2, strictly_higher_than(1)>> >>)>> >>),
     root |-> 3, version |-> 1]

\* tests: test_conflict_with_partial_satisfier.
\* foo = 1, left = 2, right = 3, root = 4, shared = 5, target = 6.
PartialSatisfier ==
    [pr |-> Table(1..6,
            << <<PV(10, << >>),
                 PV(11, << <<2, between(10, 20)>>, <<3, between(10, 20)>> >>)>>,
               <<PV(10, << <<5, higher_than(10)>> >>)>>,
               <<PV(10, << <<5, strictly_lower_than(20)>> >>)>>,
               <<PV(1, << <<1, between(10, 20)>>, <<6, between(20, 30)>> >>)>>,
               <<PV(10, << <<6, between(10, 20)>> >>), PV(20, << >>)>>,
               <<PV(10, << >>), PV(20, << >>)>> >>),
     root |-> 4, version |-> 1]

\* tests: test_double_choices.  a = 1, b = 2, c = 3, d = 4.
DoubleChoices ==
    [pr |-> Table(1..4,
            << <<PV(0, << <<2, RangesFull>>, <<3, RangesFull>> >>)>>,
               <<PV(0, << <<4, singleton(0)>> >>), PV(1, << <<4, singleton(1)>> >>)>>,
               <<PV(0, << >>), PV(1, << <<4, singleton(2)>> >>)>>,
               <<PV(0, << >>)>> >>),
     root |-> 1, version |-> 0]

\* tests: test_confusing_with_lots_of_holes.  bar (no versions) = 1,
\* baz = 2, foo = 3, root = 4.
LotsOfHoles ==
    [pr |-> Table(2..4,
            << << >>,
               <<PV(1, << >>)>>,
               <<PV(1, << <<1, RangesFull>> >>), PV(2, << <<1, RangesFull>> >>),
                 PV(3, << <<1, RangesFull>> >>), PV(4, << <<1, RangesFull>> >>),
                 PV(5, << <<1, RangesFull>> >>)>>,
               <<PV(1, << <<2, RangesFull>>, <<3, RangesFull>> >>)>> >>),
     root |-> 4, version |-> 1]

\* A provider over b = 1, c = 2, d = 3, r = 4: r 1 depends on c >= 2 and on
\* d 3, d 3 on any b, and b 3, the only version of b, on c 4, which does not
\* exist.
LeftBehind ==
    [pr |-> Table(1..4,
            << <<PV(3, << <<2, singleton(4)>> >>)>>,
               <<PV(3, << >>)>>,
               <<PV(3, << <<1, RangesFull>> >>)>>,
               <<PV(1, << <<2, higher_than(2)>>, <<3, singleton(3)>> >>)>> >>),
     root |-> 4, version |-> 1]

\* a = 1, b = 2, c = 3, r = 4.  The root narrows a to [2, oo), b@1 narrows it
\* again to 2, and c@1 wants a = 1: the conflict is met by a package holding
\* two dated derivations that both satisfy its term.
NarrowedTwice ==
    [pr |-> Table(1..4,
            << <<PV(1, << >>), PV(2, << >>), PV(3, << >>)>>,
               <<PV(1, << <<1, lower_than(2)>>, <<3, RangesFull>> >>)>>,
               <<PV(1, << <<1, singleton(1)>> >>)>>,
               <<PV(1, << <<1, higher_than(2)>>, <<2, RangesFull>> >>)>> >>),
     root |-> 4, version |-> 1]

\* a = 1, b = 2, c = 3, r = 4.  Both versions of c want a = 1 while b@1 keeps
\* a at most 2: c@2 is given up after a conflict and the dependency of c@1
\* is merged with that of c@2.
MergedVersions ==
    [pr |-> Table(1..4,
            << <<PV(1, << >>), PV(2, << >>), PV(3, << >>)>>,
               <<PV(1, << <<1, lower_than(2)>> >>), PV(2, << >>)>>,
               <<PV(1, << <<1, singleton(1)>> >>), PV(2, << <<1, singleton(1)>> >>)>>,
               <<PV(1, << <<2, singleton(1)>>, <<3, RangesFull>> >>)>> >>),
     root |-> 4, version |-> 1]

Scenarios == {NoConflict, AvoidingConflict, ConflictResolutionTest,
              ConflictResolutionStrict, PartialSatisfier, DoubleChoices, LotsOfHoles}

\* One optional entry of an initializer list of add_dependencies: c is << >>
\* (no dependency on q) or <<range>>.
Dep(q, c) == IF c = << >> THEN << >> ELSE << <<q, c[1]>> >>

DepChoices == {<< >>, <<RangesFull>>, <<singleton(1)>>, <<singleton(2)>>}

\* Every provider over a = 1, b = 2, r = 3 in which r 1 may depend on a and
\* on b, a 1 and a 2 may depend on b, and b 1 and b 2 may depend on a.
Family ==
    {[pr |-> Table(1..3,
             << <<PV(1, Dep(2, c[3])), PV(2, Dep(2, c[4]))>>,
                <<PV(1, Dep(1, c[5])), PV(2, Dep(1, c[6]))>>,
                <<PV(1, Dep(1, c[1]) \o Dep(2, c[2]))>> >>),
      root |-> 3, version |-> 1] : c \in [1..6 -> DepChoices]}

\* resolve() called with a root version the provider does not have, and
\* with the lower of two root versions.
RootVersions ==
    {[pr |-> Table(1..2,
             << <<PV(1, << >>), PV(2, << >>)>>,
                <<PV(1, Dep(1, c)), PV(2, Dep(1, c))>> >>),
      root |-> 2, version |-> v] : c \in DepChoices, v \in 1..3}

Instances == Scenarios \cup Family \cup RootVersions \cup {LeftBehind, NarrowedTwice, MergedVersions}

MaxSteps == 60

\* The state resolve() is in when it first calls unit_propagation(next):
\* State::init has interned the root and stored the NotRoot incompatibility.
InitSolver ==
    /\ \E inst \in Instances :
          /\ provider = inst.pr
          /\ root_name = inst.root
          /\ root_version = inst.version
    /\ root_package = 0
    /\ package_store = <<root_name>>
    /\ incompatibility_store = <<not_root(0, root_version)>>
    /\ incompatibilities = Put(EmptyMap, 0, <<0>>)
    /\ contradicted_incompatibilities = EmptyMap
    /\ merged_dependencies = EmptyMap
    /\ partial_solution = EmptyPartialSolution
    /\ unit_propagation_buffer = <<0>>
    /\ satisfier_causes = << >>
    /\ conflict_tracker = EmptyMap
    /\ added_dependencies = EmptyMap
    /\ next = 0
    /\ current_incompat_id = 0
    /\ current_incompat_changed = FALSE
    /\ pc = "propagate"
    /\ result = {}
    /\ error = ""
    /\ wild_reads = 0
    /\ steps = 0

\* resolve() builds no Term of its own outside the state above.
Init == InitSolver /\ term_a = TermEmpty /\ term_b = TermEmpty

Next ==
    \/ (steps < MaxSteps /\ UnitPropagation /\ UNCHANGED term_vars)
    \/ (steps < MaxSteps /\ ConflictResolution /\ UNCHANGED term_vars)
    \/ (steps < MaxSteps /\ Decide /\ UNCHANGED term_vars)

Spec == Init /\ [][Next]_vars

Terminated == pc \in {"done", "failed", "error"}

\* resolve() is running on the instance inst.
OnInstance(inst) ==
    provider = inst.pr /\ root_name = inst.root /\ root_version = inst.version

\* A step of Next, seen through the step counter: Next is enabled exactly
\* when resolve() has not left and the step bound is not reached, and every
\* step of Next counts one step.
Progress == steps < MaxSteps /\ ~ Terminated /\ steps' = steps + 1

\* The runs of the test scenarios.  resolve() is one sequential loop: a step
\* that can be taken is taken.
InitScenarios == Init /\ \E inst \in Scenarios : OnInstance(inst)

FairSpec == InitScenarios /\ [][Next]_vars /\ WF_steps(Progress)

(***************************************************************************)
(* What the solver is to deliver.  An assignment M is a set of pairs       *)
(* <<package name, version>>.                                              *)
(***************************************************************************)
DependenciesMet(M) ==
    \A e \in M :
        LET deps == get_dependencies(provider, e[1], e[2]).dependencies
        IN \A i \in 1..Len(deps) :
              \E f \in M : f[1] = deps[i][1] /\ contains(deps[i][2], f[2])

VersionsAvailable(M) ==
    \A e \in M :
        \E i \in 1..Len(provider_versions(provider, e[1])) :
            provider_versions(provider, e[1])[i].version = e[2]

SoundAssignment(M) ==
    /\ <<root_name, root_version>> \in M
    /\ \A e \in M : \A f \in M : e[1] = f[1] => e[2] = f[2]
    /\ VersionsAvailable(M)
    /\ DependenciesMet(M)

ProvidedPairs ==
    UNION {{<<p, provider[p][i].version>> : i \in 1..Len(provider[p])} :
              p \in DOMAIN provider}

Satisfiable == \E M \in SUBSET ProvidedPairs : SoundAssignment(M)

\* The answer of the reference solver on the instance of this run.
Reference == dpll_resolve(provider, root_name, root_version)

\* The incompatibility conflict_resolution is looking at.
CurrentIncompat == incompatibility_store[current_incompat_id + 1]

(***************************************************************************)
(* C1.  Every dependency (q, range) the provider reports for an entry      *)
(* (p, v) of an assignment returned by resolve is met by the assignment:   *)
(* q is in it and its version lies in range.                               *)
(***************************************************************************)
C1_Soundness == pc = "done" => DependenciesMet(result)

\* resolve returned after a backjump, with an entry whose dependency range
\* is not the full range.
C1_Witness ==
    /\ pc = "done"
    /\ partial_solution.has_ever_backtracked
    /\ \E e \in result :
          LET deps == get_dependencies(provider, e[1], e[2]).dependencies
          IN \E i \in 1..Len(deps) : deps[i][2] # RangesFull

C5_VersionsAvailable == pc = "done" => VersionsAvailable(result)

\* resolve returned an assignment in which some package is not at the
\* highest version the provider has for it.
C5_Witness ==
    /\ pc = "done"
    /\ \E e \in result :
          \E i \in 1..Len(provider_versions(provider, e[1])) :
              provider_versions(provider, e[1])[i].version > e[2]

(***************************************************************************)
(* C6.  An assignment returned by resolve holds the root package, at       *)
(* exactly the root version resolve was called with.                       *)
(***************************************************************************)
C6_RootVersion ==
    pc = "done" => {e \in result : e[1] = root_name} = {<<root_name, root_version>>}

\* resolve returned although the provider has a higher root version than
\* the one asked for.
C6_Witness ==
    /\ pc = "done"
    /\ \E i \in 1..Len(provider_versions(provider, root_name)) :
          provider_versions(provider, root_name)[i].version > root_version

(***************************************************************************)
(* C7.  Whenever the reference DPLL solver finds an assignment for the     *)
(* instance, the assignment resolve returns is the same.                   *)
(***************************************************************************)
C7_SameAsReference == (pc = "done" /\ Reference.found) => result = Reference.result

DerivedInstances == {NoConflict, AvoidingConflict} \cup RootVersions

InitDerived == Init /\ \E inst \in DerivedInstances : OnInstance(inst)

NextDerived ==
    \/ (steps < MaxSteps /\ UnitPropagation /\ UNCHANGED term_vars)
    \/ (steps < MaxSteps /\ ConflictResolution /\ UNCHANGED term_vars)
    \/ (steps < MaxSteps /\ DecideDerived /\ UNCHANGED term_vars)

\* resolve() with a provider of a derived class.
DerivedSpec == InitDerived /\ [][NextDerived]_vars

TrackedNow ==
    track_causes(conflict_tracker, satisfier_causes, 1, incompatibility_store)

PickedNow ==
    pick_highest_priority_pkg(
        partial_solution,
        prioritizer(provider, package_store, partial_solution, TrackedNow))

TriedNow ==
    IF PickedNow.pkg \in DOMAIN added_dependencies
    THEN added_dependencies[PickedNow.pkg] ELSE {}

LastIncompat == incompatibility_store[Len(incompatibility_store)]

(***************************************************************************)
(* C12.  When get_dependencies(p, v) answers Unavailable, resolve adds the *)
(* NoVersions incompatibility whose only term is Positive(singleton(v)) on *)
(* p, adds no decision, and goes on with the next unit_propagation(p)      *)
(* instead of leaving with an error.                                       *)
(***************************************************************************)
C12_UnavailableRecovered ==
    (pc = "decide" /\ PickedNow.found) =>
        \A dp \in Overrides :
            LET name == package_store[PickedNow.pkg + 1]
                decision == dp_choose_version(dp, provider, name, PickedNow.range)
                o == DerivedOutcome(dp)
            IN (/\ decision # << >>
                /\ contains(PickedNow.range, decision[1])
                /\ decision[1] \notin TriedNow
                /\ dp_get_dependencies(dp, provider, name, decision[1]).tag = "Unavailable")
               => /\ o.pc = "propagate"
                  /\ o.error = ""
                  /\ o.next = PickedNow.pkg
                  /\ o.st.incompatibility_store =
                         Append(incompatibility_store,
                                [terms |-> << <<PickedNow.pkg,
                                                Positive(singleton(decision[1]))>> >>,
                                 kind |-> [tag |-> "NoVersions", a |-> PickedNow.pkg,
                                           b |-> 0]])
                  /\ o.ps.package_assignments = partial_solution.package_assignments
                  /\ o.ps.current_decision_level = partial_solution.current_decision_level

\* resolve is back in unit_propagation(p) after the NoVersions incompatibility
\* of a version of p whose dependencies it asked for.
C12_Witness ==
    /\ pc = "propagate"
    /\ unit_propagation_buffer = <<next>>
    /\ LastIncompat.kind.tag = "NoVersions"
    /\ next \in DOMAIN added_dependencies
    /\ \E v \in added_dependencies[next] :
          LastIncompat.terms = << <<next, Positive(singleton(v))>> >>

(***************************************************************************)
(* C13.  When choose_version answers a version outside the range it was    *)
(* given, resolve leaves with an error; no dependency of that version is   *)
(* fetched or ingested and no decision is added.                           *)
(***************************************************************************)
C13_OutsideRangeFatal ==
    (pc = "decide" /\ PickedNow.found) =>
        \A dp \in Overrides :
            LET name == package_store[PickedNow.pkg + 1]
                decision == dp_choose_version(dp, provider, name, PickedNow.range)
                o == DerivedOutcome(dp)
            IN (decision # << >> /\ ~ contains(PickedNow.range, decision[1]))
               => /\ o.pc = "error"
                  /\ o.error # ""
                  /\ o.st = StateRec
                  /\ o.pkgs = package_store
                  /\ o.added = added_dependencies
                  /\ o.ps.package_assignments = partial_solution.package_assignments
                  /\ o.ps.current_decision_level = partial_solution.current_decision_level

\* resolve has left because of a version outside the range.
C13_Witness == pc = "error" /\ error = "choose_version outside of range"

(***************************************************************************)
(* C14.  When pick_highest_priority_pkg finds no package, every package    *)
(* the partial solution tracks holds a Decision, so that extract_solution  *)
(* does not throw.                                                         *)
(***************************************************************************)
C14_AllDecidedAtExtract ==
    (pc = "decide" /\ ~ PickedNow.found) =>
        /\ \A i \in 1..Len(partial_solution.package_assignments) :
               isDecision(partial_solution.package_assignments[i][2].assignments_intersection)
        /\ extract_solution(partial_solution).ok

(***************************************************************************)
(* The Term and Ranges operations on their own: term_a is a value built    *)
(* from the constructors by the operations, term_b a value of a            *)
(* constructor.  Versions are 0..MaxValue, and term_a is the result of at  *)
(* most MaxOps operations.                                                 *)
(***************************************************************************)
MaxValue == 2

MaxOps == 2

Values == 0..MaxValue

\* What the static constructors of Ranges<V> return.
Constructors ==
    {RangesEmpty, RangesFull}
        \cup {higher_than(v) : v \in Values}
        \cup {strictly_higher_than(v) : v \in Values}
        \cup {lower_than(v) : v \in Values}
        \cup {strictly_lower_than(v) : v \in Values}
        \cup {singleton(v) : v \in Values}
        \cup {between(w[1], w[2]) : w \in {x \in Values \X Values : x[1] < x[2]}}

\* Term::Positive and Term::Negative of a constructed range.
Operands == {Positive(r) : r \in Constructors} \cup {Negative(r) : r \in Constructors}

InitTerms ==
    /\ InitSolver
    /\ OnInstance(NoConflict)
    /\ term_a \in Operands
    /\ term_b \in Operands

TermIntersection ==
    /\ steps < MaxOps
    /\ steps' = steps + 1
    /\ term_a' = term_intersection(term_a, term_b)
    /\ term_b' \in Operands
    /\ UNCHANGED solver_vars

TermUnionWith ==
    /\ steps < MaxOps
    /\ steps' = steps + 1
    /\ term_a' = term_union_with(term_a, term_b)
    /\ term_b' \in Operands
    /\ UNCHANGED solver_vars

TermNegate ==
    /\ steps < MaxOps
    /\ steps' = steps + 1
    /\ term_a' = negate(term_a)
    /\ term_b' \in Operands
    /\ UNCHANGED solver_vars

RangesUnion ==
    /\ steps < MaxOps
    /\ steps' = steps + 1
    /\ term_a' = [term_a EXCEPT !.ranges = union_(term_a.ranges, term_b.ranges)]
    /\ term_b' \in Operands
    /\ UNCHANGED solver_vars

RangesIntersection ==
    /\ steps < MaxOps
    /\ steps' = steps + 1
    /\ term_a' = [term_a EXCEPT !.ranges = intersection(term_a.ranges, term_b.ranges)]
    /\ term_b' \in Operands
    /\ UNCHANGED solver_vars

RangesComplement ==
    /\ steps < MaxOps
    /\ steps' = steps + 1
    /\ term_a' = [term_a EXCEPT !.ranges = complement(term_a.ranges)]
    /\ term_b' \in Operands
    /\ UNCHANGED solver_vars

NextTerms ==
    \/ TermIntersection
    \/ TermUnionWith
    \/ TermNegate
    \/ RangesUnion
    \/ RangesIntersection
    \/ RangesComplement

TermSpec == InitTerms /\ [][NextTerms]_vars

\* The versions contains() is asked about: those of the bounds and one on
\* each side of them.
Probes == (0 - 1)..(MaxValue + 1)

(***************************************************************************)
(* C15.  Term::any() is the identity of Term::intersection, on both        *)
(* sides: T.intersection(any) = any.intersection(T) = T.                   *)
(***************************************************************************)
C15_AnyIdentity ==
    /\ term_intersection(term_a, TermAny) = term_a
    /\ term_intersection(TermAny, term_a) = term_a

(***************************************************************************)
(* C16.  Term::union_with is the De Morgan dual of Term::intersection, and *)
(* the union contains a version exactly when one of the two terms does.    *)
(***************************************************************************)
C16_UnionDeMorgan ==
    /\ term_union_with(term_a, term_b)
           = negate(term_intersection(negate(term_a), negate(term_b)))
    /\ \A v \in Probes :
           term_contains(term_union_with(term_a, term_b), v)
               <=> (term_contains(term_a, v) \/ term_contains(term_b, v))

(***************************************************************************)
(* C17.  If P.relation_with(Q) is Satisfied, every version Q contains is   *)
(* contained in P; checked with the built term on either side.             *)
(***************************************************************************)
C17_SatisfiedIsContainment ==
    /\ relation_with(term_a, term_b) = "Satisfied"
           => \A v \in Probes : term_contains(term_b, v) => term_contains(term_a, v)
    /\ relation_with(term_b, term_a) = "Satisfied"
           => \A v \in Probes : term_contains(term_a, v) => term_contains(term_b, v)

\* Satisfied between two negative terms that differ, and between a negative
\* and a positive term, each containing a version.
C17_Witness ==
    /\ relation_with(term_a, term_b) = "Satisfied"
    /\ is_negative(term_a)
    /\ term_a.ranges # term_b.ranges
    /\ \E v \in Probes : term_contains(term_b, v)
    /\ steps > 0

\* Two neighbours in a sequence of segments that meet at one value.
abut(r, i) ==
    /\ is_finite(r[i][2])
    /\ is_finite(r[i + 1][1])
    /\ r[i][2].value = r[i + 1][1].value

(***************************************************************************)
(* C18.  In the result of Ranges::union_ two neighbouring segments that    *)
(* meet at one value are separate only if both bounds there are open: with *)
(* a closed bound on either side they have been merged.                    *)
(***************************************************************************)
C18_AbuttingMerged ==
    LET u == union_(term_a.ranges, term_b.ranges)
    IN \A i \in 1..(Len(u) - 1) :
           abut(u, i) => (is_open(u[i][2]) /\ is_open(u[i + 1][1]))

(***************************************************************************)
(* C19.  complement(complement(A)) = A under Ranges::operator==, for every *)
(* A built from the constructors by union_, intersection and complement.   *)
(***************************************************************************)
C19_ComplementInvolution == complement(complement(term_a.ranges)) = term_a.ranges

(***************************************************************************)
(* C20.  A.intersection(complement(A)) is empty and A.union_(complement(A))*)
(* is full under Ranges::operator==.                                       *)
(***************************************************************************)
C20_ComplementLaws ==
    /\ intersection(term_a.ranges, complement(term_a.ranges)) = RangesEmpty
    /\ union_(term_a.ranges, complement(term_a.ranges)) = RangesFull

(***************************************************************************)
(* The partial solution between two steps of resolve().                    *)
(***************************************************************************)
\* The positions of package_assignments that hold a Decision.
DecisionPositions(ps) ==
    {i \in 1..Len(ps.package_assignments) :
        isDecision(ps.package_assignments[i][2].assignments_intersection)}

\* The global indices of the assignments the partial solution holds: one per
\* dated derivation and one per decision, as a sequence.
RECURSIVE LiveIndicesFrom(_, _)
LiveIndicesFrom(pas, i) ==
    IF i > Len(pas) THEN << >>
    ELSE LET pa == pas[i][2]
         IN [j \in 1..Len(pa.dated_derivations) |-> pa.dated_derivations[j].global_index]
            \o (IF isDecision(pa.assignments_intersection)
                THEN <<pa.assignments_intersection.decision_global_index>> ELSE << >>)
            \o LiveIndicesFrom(pas, i + 1)

LiveIndices == LiveIndicesFrom(partial_solution.package_assignments, 1)

(***************************************************************************)
(* C21.  current_decision_level is the number of entries of                *)
(* package_assignments that hold a Decision, after every step.             *)
(***************************************************************************)
C21_LevelCountsDecisions ==
    partial_solution.current_decision_level
        = Cardinality(DecisionPositions(partial_solution))

\* A decision taken after a backtrack.
C21_Witness ==
    /\ partial_solution.has_ever_backtracked
    /\ partial_solution.current_decision_level >= 2
    /\ pc = "propagate"

(***************************************************************************)
(* C22.  next_global_index never decreases, backtracks included, and no    *)
(* two assignments held share a global index, each being below             *)
(* next_global_index.                                                      *)
(***************************************************************************)
C22_GlobalIndexMonotonic ==
    /\ [][partial_solution'.next_global_index >= partial_solution.next_global_index]_vars
    /\ [](\A i, j \in 1..Len(LiveIndices) :
             /\ LiveIndices[i] < partial_solution.next_global_index
             /\ (i # j => LiveIndices[i] # LiveIndices[j]))
    /\ [](\A level \in 1..partial_solution.current_decision_level :
             ps_backtrack(partial_solution, level).next_global_index
                 = partial_solution.next_global_index)

\* Assignments added after a backtrack.
C22_Witness ==
    /\ partial_solution.has_ever_backtracked
    /\ pc = "decide"
    /\ Len(LiveIndices) >= 3
    /\ \E k \in 0..partial_solution.next_global_index :
           k \notin {LiveIndices[i] : i \in 1..Len(LiveIndices)}

(***************************************************************************)
(* C23.  The first current_decision_level entries of package_assignments   *)
(* are exactly those holding a Decision, no package has two entries, and   *)
(* package_assignments_index_map gives every tracked package its position. *)
(***************************************************************************)
C23_DecisionsFirst ==
    LET pas == partial_solution.package_assignments
        map == partial_solution.package_assignments_index_map
    IN /\ DecisionPositions(partial_solution) = 1..partial_solution.current_decision_level
       /\ \A i, j \in 1..Len(pas) : pas[i][1] = pas[j][1] => i = j
       /\ DOMAIN map = {pas[i][1] : i \in 1..Len(pas)}
       /\ \A i \in 1..Len(pas) : map[pas[i][1]] = i - 1

\* A decision that had to be moved forward, and one taken after a backtrack.
C23_Witness ==
    /\ partial_solution.has_ever_backtracked
    /\ partial_solution.current_decision_level >= 3
    /\ Len(partial_solution.package_assignments) > partial_solution.current_decision_level

\* A term on the package named name holds in the assignment M: the version
\* M gives the package is one the term contains; a package M leaves out
\* meets the negative terms only.
TermHolds(t, name, M) ==
    IF \E e \in M : e[1] = name
    THEN \E e \in M : e[1] = name /\ term_contains(t, e[2])
    ELSE is_negative(t)

\* All terms of an incompatibility hold in M.
IncompatHolds(inc, M) ==
    \A i \in 1..Len(inc.terms) :
        TermHolds(inc.terms[i][2], package_store[inc.terms[i][1] + 1], M)

ListedIncompatibilities ==
    UNION {{incompatibilities[q][i] : i \in 1..Len(incompatibilities[q])} :
              q \in DOMAIN incompatibilities}

(***************************************************************************)
(* C25.  When unit_propagation has returned to resolve() without an error, *)
(* no incompatibility of a per-package list is Satisfied by the partial    *)
(* solution.                                                               *)
(***************************************************************************)
C25_NoSatisfiedLeft ==
    pc = "decide" =>
        \A id \in ListedIncompatibilities :
            \A contradictedFirst \in BOOLEAN :
                relation(incompatibility_store[id + 1],
                         terms_lookup(partial_solution, Len(package_store)),
                         contradictedFirst).tag # "Satisfied"

\* Unit propagation has returned after a backjump, leaving a derived
\* incompatibility in the lists that the partial solution contradicts.
C25_Witness ==
    /\ pc = "decide"
    /\ partial_solution.has_ever_backtracked
    /\ \E id \in ListedIncompatibilities :
          /\ incompatibility_store[id + 1].kind.tag = "DerivedFrom"
          /\ relation(incompatibility_store[id + 1],
                      terms_lookup(partial_solution, Len(package_store)),
                      TRUE).tag = "Contradicted"

(***************************************************************************)
(* Conflict resolution at the incompatibility it is looking at.            *)
(***************************************************************************)
\* conflict_resolution is about to call satisfier_search.
Searching ==
    pc = "conflict" /\ ~ is_terminal(CurrentIncompat, root_package, root_version)

SearchNow == satisfier_search(partial_solution, CurrentIncompat, incompatibility_store)

SatisfiedNow == find_satisfier(partial_solution, CurrentIncompat)

\* The position in SatisfiedNow of the satisfier: the greatest global index.
BestNow == select_satisfier(SatisfiedNow, 1, 0, 0)

PreviousNow ==
    find_previous_satisfier(partial_solution, CurrentIncompat, SatisfiedNow[BestNow][1],
                            SatisfiedNow, incompatibility_store)

C27_SameOrBackjump ==
    [][(Searching /\ SearchNow.kind # "error") =>
          IF PreviousNow.level >= SatisfiedNow[BestNow][2].dl
          THEN /\ SearchNow.kind \in {"SameDecisionLevels", "SameNoCause"}
               /\ partial_solution' = partial_solution
          ELSE /\ SearchNow.kind = "DifferentDecisionLevels"
               /\ SearchNow.previous_satisfier_level = PreviousNow.level
               /\ PreviousNow.level >= 1
               /\ PreviousNow.level < SatisfiedNow[BestNow][2].dl
               /\ partial_solution'.current_decision_level = PreviousNow.level
               /\ partial_solution'.has_ever_backtracked]_vars

\* A backjump over more than one level, and one to a level above 1.
C27_Witness ==
    /\ Searching
    /\ SearchNow.kind = "DifferentDecisionLevels"
    /\ SearchNow.previous_satisfier_level + 1 < SearchNow.satisfier_level

\* The partial solution satisfies the incompatibility conflict_resolution is
\* looking at.
SatisfiedSearch ==
    /\ Searching
    /\ relation(CurrentIncompat, terms_lookup(partial_solution, Len(package_store)),
                TRUE).tag = "Satisfied"

\* The dated derivations of the i-th package of the incompatibility whose
\* accumulated term is disjoint from the negation of the incompatibility's term.
DisjointDerivations(i) ==
    LET pa == find_package_assignments(partial_solution, CurrentIncompat.terms[i][1])
    IN {k \in 1..Len(pa.dated_derivations) :
           term_is_disjoint(pa.dated_derivations[k].accumulated_intersection,
                            negate(CurrentIncompat.terms[i][2]))}

(***************************************************************************)
(* C28.  For a satisfied incompatibility the satisfier entry of each of    *)
(* its packages is the earliest dated derivation whose accumulated term is *)
(* disjoint from the negation of the incompatibility's term, or the        *)
(* package's decision when there is no such derivation; the satisfier is   *)
(* the entry with the greatest global index and the satisfier level is its *)
(* decision level.                                                         *)
(***************************************************************************)
C28_SatisfierChoice ==
    SatisfiedSearch =>
        /\ \A i \in 1..Len(CurrentIncompat.terms) :
              LET pa == find_package_assignments(partial_solution,
                                                 CurrentIncompat.terms[i][1])
                  info == SatisfiedNow[i][2]
              IN /\ SatisfiedNow[i][1] = CurrentIncompat.terms[i][1]
                 /\ ~ info.err
                 /\ IF DisjointDerivations(i) # {}
                    THEN \E k \in DisjointDerivations(i) :
                            /\ \A j \in DisjointDerivations(i) : k <= j
                            /\ info.cause = <<pa.dated_derivations[k].cause>>
                            /\ info.gidx = pa.dated_derivations[k].global_index
                            /\ info.dl = pa.dated_derivations[k].decision_level
                    ELSE /\ isDecision(pa.assignments_intersection)
                         /\ info.cause = << >>
                         /\ info.gidx = pa.assignments_intersection.decision_global_index
                         /\ info.dl = pa.highest_decision_level
        /\ \A i \in 1..Len(SatisfiedNow) :
              SatisfiedNow[i][2].gidx <= SatisfiedNow[BestNow][2].gidx
        /\ SearchNow.kind # "error"
        /\ SearchNow.package = SatisfiedNow[BestNow][1]
        /\ SearchNow.satisfier_level = SatisfiedNow[BestNow][2].dl

\* Two packages, one whose entry is a derivation later than its first and one
\* whose entry is its decision; the satisfier is not the last term's entry.
C28_Witness ==
    /\ SatisfiedSearch
    /\ \E i \in 1..Len(CurrentIncompat.terms) :
          /\ DisjointDerivations(i) # {}
          /\ 1 \notin DisjointDerivations(i)
    /\ \E i \in 1..Len(CurrentIncompat.terms) : DisjointDerivations(i) = {}
    /\ BestNow < Len(SatisfiedNow)

\* A package of the incompatibility has two dated derivations to choose from.
C28_WitnessEarliest ==
    /\ SatisfiedSearch
    /\ \E i \in 1..Len(CurrentIncompat.terms) : Cardinality(DisjointDerivations(i)) >= 2

(***************************************************************************)
(* C29.  When satisfier_search answers SameDecisionLevels the satisfier is *)
(* a derivation: its cause is an incompatibility of the store, and that    *)
(* incompatibility has a term on the satisfier's package, the pivot of     *)
(* prior_cause.                                                            *)
(***************************************************************************)
C29_SameHasCause ==
    (Searching /\ SearchNow.kind \in {"SameDecisionLevels", "SameNoCause"}) =>
        /\ SatisfiedNow[BestNow][2].cause # << >>
        /\ SearchNow.kind = "SameDecisionLevels"
        /\ SearchNow.satisfier_cause \in 0..(Len(incompatibility_store) - 1)
        /\ \E i \in 1..Len(incompatibility_store[SearchNow.satisfier_cause + 1].terms) :
              incompatibility_store[SearchNow.satisfier_cause + 1].terms[i][1]
                  = SearchNow.package

\* The packages that hold a Decision.
Decided(ps) ==
    {ps.package_assignments[i][1] : i \in DecisionPositions(ps)}

\* The dated derivations package has in ps.
DerivationsOf(ps, package) ==
    IF has_package_assignments(ps, package)
    THEN Len(find_package_assignments(ps, package).dated_derivations)
    ELSE 0

(***************************************************************************)
(* C30.  add_derivation is never called for a package that holds a         *)
(* Decision: resolve never fails with "package already has a decision",    *)
(* and a package that gains a dated derivation in a step of unit           *)
(* propagation is not decided before the step, as the pivot of a backjump  *)
(* is not decided at the level jumped to.                                  *)
(***************************************************************************)
C30_NoDerivationOnDecided ==
    /\ [](error # "add_derivation: package already has a decision")
    /\ [][pc = "propagate" =>
            \A package \in Decided(partial_solution) :
                DerivationsOf(partial_solution', package)
                    <= DerivationsOf(partial_solution, package)]_vars
    /\ [][(Searching /\ SearchNow.kind = "DifferentDecisionLevels") =>
            SearchNow.package \notin
                Decided(ps_backtrack(partial_solution,
                                     SearchNow.previous_satisfier_level))]_vars

\* A backjump whose pivot held a Decision before the jump.
C30_Witness ==
    /\ Searching
    /\ SearchNow.kind = "DifferentDecisionLevels"
    /\ SearchNow.package \in Decided(partial_solution)
    /\ Decided(ps_backtrack(partial_solution, SearchNow.previous_satisfier_level)) # {}

\* The version package is decided at in ps.
DecidedVersion(ps, package) ==
    find_package_assignments(ps, package).assignments_intersection.version

(***************************************************************************)
(* C31.  Every decision p = v that a step of resolve adds is on a package  *)
(* the partial solution tracked before the step, that held no Decision,    *)
(* and whose accumulated term contained v; add_decision never throws.      *)
(***************************************************************************)
C31_DecisionWithinTerm ==
    /\ [](error \notin {"add_decision: package assignments not found",
                        "add_decision: package already has a decision",
                        "add_version version not contained in term"})
    /\ [][\A package \in Decided(partial_solution') \ Decided(partial_solution) :
             /\ has_package_assignments(partial_solution, package)
             /\ ~ isDecision(find_package_assignments(partial_solution, package)
                                 .assignments_intersection)
             /\ term_contains(find_package_assignments(partial_solution, package)
                                  .assignments_intersection.term,
                              DecidedVersion(partial_solution', package))]_vars

\* A decision added after a backtrack, through the check of the new
\* incompatibilities, on a package with more than the chosen version left.
C31_Witness ==
    /\ pc = "propagate"
    /\ partial_solution.has_ever_backtracked
    /\ next \in Decided(partial_solution)
    /\ find_package_assignments(partial_solution, next).highest_decision_level
           = partial_solution.current_decision_level
    /\ partial_solution.current_decision_level >= 2
    /\ \E i \in 1..Len(find_package_assignments(partial_solution, next).dated_derivations) :
          find_package_assignments(partial_solution, next).dated_derivations[i]
              .accumulated_intersection
            # Positive(singleton(DecidedVersion(partial_solution, next)))

\* The versions that tell two terms apart: the bounds of their segments and
\* the neighbours of the bounds.
BoundsOf(t) ==
    UNION {{t.ranges[i][k].value - 1, t.ranges[i][k].value, t.ranges[i][k].value + 1} :
              i \in 1..Len(t.ranges), k \in 1..2} \cup {0}

\* The versions among vs that t contains.
VersionsIn(t, vs) == {v \in vs : term_contains(t, v)}

\* The term the cause of a dated derivation has on package.
CauseTerm(cause, package) == map_get(incompatibility_store[cause + 1].terms, package)

\* acc is the term before (all versions when before is no term) intersected
\* with the negation of the cause's term, as sets of versions.
IsIntersectionStep(acc, before, cause_term) ==
    LET vs == BoundsOf(acc) \cup BoundsOf(cause_term)
                  \cup (IF before = NullTerm THEN {} ELSE BoundsOf(before))
    IN VersionsIn(acc, vs) =
           (IF before = NullTerm THEN vs ELSE VersionsIn(before, vs))
               \ VersionsIn(cause_term, vs)

\* The incompatibilities add_derivation can be called with for package: the
\* listed ones that have a term on it.
CausesFor(package) ==
    {id \in ListedIncompatibilities : CauseTerm(id, package) # NullTerm}

(***************************************************************************)
(* C32.  add_derivation(p, c) appends one dated derivation whose           *)
(* accumulated intersection is p's previous accumulated term (every        *)
(* version when p had no entry) intersected with the negation of c's term  *)
(* on p, and that value becomes p's current term.  The first conjunct      *)
(* applies add_derivation to the partial solution of the state; the second *)
(* reads the dated derivations the run has recorded.                       *)
(***************************************************************************)
C32_DerivationAccumulates ==
    /\ \A package \in (0..(Len(package_store) - 1)) \ Decided(partial_solution) :
          \A c \in CausesFor(package) :
              LET after == add_derivation(partial_solution, package, c,
                                          incompatibility_store)
                  pa == find_package_assignments(after, package)
                  n == DerivationsOf(partial_solution, package)
              IN /\ Len(pa.dated_derivations) = n + 1
                 /\ SubSeq(pa.dated_derivations, 1, n)
                       = (IF n = 0 THEN << >>
                          ELSE find_package_assignments(partial_solution, package)
                                   .dated_derivations)
                 /\ pa.dated_derivations[n + 1].cause = c
                 /\ IsIntersectionStep(pa.dated_derivations[n + 1].accumulated_intersection,
                                       term_intersection_for_package(partial_solution,
                                                                     package),
                                       CauseTerm(c, package))
                 /\ pa.assignments_intersection =
                        makeDerivations(pa.dated_derivations[n + 1].accumulated_intersection)
                 /\ \A q \in (0..(Len(package_store) - 1)) \ {package} :
                        /\ has_package_assignments(after, q)
                              = has_package_assignments(partial_solution, q)
                        /\ has_package_assignments(after, q) =>
                              find_package_assignments(after, q)
                                  = find_package_assignments(partial_solution, q)
    /\ \A i \in 1..Len(partial_solution.package_assignments) :
          LET package == partial_solution.package_assignments[i][1]
              pa == partial_solution.package_assignments[i][2]
              dds == pa.dated_derivations
          IN /\ \A k \in 1..Len(dds) :
                    IsIntersectionStep(dds[k].accumulated_intersection,
                                       IF k = 1 THEN NullTerm
                                       ELSE dds[k - 1].accumulated_intersection,
                                       CauseTerm(dds[k].cause, package))
             /\ (~ isDecision(pa.assignments_intersection) /\ Len(dds) > 0) =>
                    pa.assignments_intersection.term
                        = dds[Len(dds)].accumulated_intersection

\* A package whose second dated derivation narrowed what the first left,
\* without emptying it.
C32_Witness ==
    \E i \in 1..Len(partial_solution.package_assignments) :
        LET dds == partial_solution.package_assignments[i][2].dated_derivations
        IN /\ Len(dds) >= 2
           /\ dds[2].accumulated_intersection # dds[1].accumulated_intersection
           /\ dds[2].accumulated_intersection # TermEmpty
           /\ dds[2].accumulated_intersection
                 # negate(CauseTerm(dds[2].cause,
                                    partial_solution.package_assignments[i][1]))

\* The dated derivations of dds made at level L or below.
DerivationsUpTo(dds, L) ==
    LET AtMost(dd) == dd.decision_level <= L
    IN SelectSeq(dds, AtMost)

(***************************************************************************)
(* C33.  backtrack to level L removes an entry whose smallest level is     *)
(* above L, keeps an entry whose highest level is at most L as it is, and  *)
(* leaves any other entry with its dated derivations of level at most L    *)
(* and with the accumulated term of the last of them as its term; nothing  *)
(* decided or derived above L is left, and no entry is added.              *)
(***************************************************************************)
C33_BacktrackEntries ==
    \A L \in 1..partial_solution.current_decision_level :
        LET after == ps_backtrack(partial_solution, L)
        IN /\ \A i \in 1..Len(partial_solution.package_assignments) :
                 LET package == partial_solution.package_assignments[i][1]
                     pa == partial_solution.package_assignments[i][2]
                     kept == DerivationsUpTo(pa.dated_derivations, L)
                 IN IF pa.smallest_decision_level > L
                    THEN ~ has_package_assignments(after, package)
                    ELSE IF pa.highest_decision_level <= L
                    THEN /\ has_package_assignments(after, package)
                         /\ find_package_assignments(after, package) = pa
                    ELSE /\ has_package_assignments(after, package)
                         /\ kept # << >>
                         /\ find_package_assignments(after, package).dated_derivations = kept
                         /\ find_package_assignments(after, package).assignments_intersection
                               = makeDerivations(kept[Len(kept)].accumulated_intersection)
           /\ \A j \in 1..Len(after.package_assignments) :
                 LET package == after.package_assignments[j][1]
                     pa == after.package_assignments[j][2]
                 IN /\ has_package_assignments(partial_solution, package)
                    /\ pa.highest_decision_level <= L
                    /\ \A k \in 1..Len(pa.dated_derivations) :
                          pa.dated_derivations[k].decision_level <= L
                    /\ isDecision(pa.assignments_intersection) =>
                          /\ isDecision(find_package_assignments(partial_solution, package)
                                            .assignments_intersection)
                          /\ find_package_assignments(partial_solution, package)
                                 .highest_decision_level <= L

\* conflict_resolution is about to backtrack to L: an entry will be removed,
\* a decided entry will lose its decision, and an entry will lose a dated
\* derivation and keep an earlier one.
C33_Witness ==
    \E L \in 1..(partial_solution.current_decision_level - 1) :
        /\ Searching
        /\ SearchNow.kind = "DifferentDecisionLevels"
        /\ SearchNow.previous_satisfier_level = L
        /\ \E i \in 1..Len(partial_solution.package_assignments) :
              partial_solution.package_assignments[i][2].smallest_decision_level > L
        /\ \E i \in 1..Len(partial_solution.package_assignments) :
              LET pa == partial_solution.package_assignments[i][2]
              IN /\ pa.smallest_decision_level <= L
                 /\ pa.highest_decision_level > L
                 /\ isDecision(pa.assignments_intersection)
        /\ \E i \in 1..Len(partial_solution.package_assignments) :
              LET pa == partial_solution.package_assignments[i][2]
              IN /\ pa.smallest_decision_level <= L
                 /\ pa.highest_decision_level > L
                 /\ Len(DerivationsUpTo(pa.dated_derivations, L))
                        < Len(pa.dated_derivations)

(***************************************************************************)
(* C34.  After State::backtrack to level L no entry of                     *)
(* contradicted_incompatibilities is recorded at a level above L and every *)
(* entry recorded at a level at most L is still there; the one entry that  *)
(* the step adds or rewrites is the returned incompatibility, recorded by  *)
(* unit_propagation at level L after the backtrack.                        *)
(***************************************************************************)
C34_ContradictedPruned ==
    [][(Searching /\ SearchNow.kind = "DifferentDecisionLevels") =>
          /\ \A id \in DOMAIN contradicted_incompatibilities' :
                /\ contradicted_incompatibilities'[id] <= SearchNow.previous_satisfier_level
                /\ id \notin DOMAIN contradicted_incompatibilities =>
                      id = current_incompat_id
          /\ \A id \in DOMAIN contradicted_incompatibilities :
                contradicted_incompatibilities[id] <= SearchNow.previous_satisfier_level =>
                    /\ id \in DOMAIN contradicted_incompatibilities'
                    /\ id # current_incompat_id =>
                          contradicted_incompatibilities'[id]
                              = contradicted_incompatibilities[id]
          /\ \A id \in DOMAIN contradicted_incompatibilities :
                contradicted_incompatibilities[id] > SearchNow.previous_satisfier_level =>
                    (id \in DOMAIN contradicted_incompatibilities' => id = current_incompat_id)
      ]_vars

\* A backtrack is about to erase an entry and to keep two, one of them
\* recorded at the level it goes to.
C34_Witness ==
    /\ Searching
    /\ SearchNow.kind = "DifferentDecisionLevels"
    /\ \E id \in DOMAIN contradicted_incompatibilities :
          contradicted_incompatibilities[id] > SearchNow.previous_satisfier_level
    /\ \E id \in DOMAIN contradicted_incompatibilities :
          contradicted_incompatibilities[id] = SearchNow.previous_satisfier_level
    /\ \E id \in DOMAIN contradicted_incompatibilities :
          contradicted_incompatibilities[id] < SearchNow.previous_satisfier_level

\* Incompatibilities and lookups to apply relation to: every listed
\* incompatibility with the lookup of the partial solution, and the
\* incompatibilities {0: term_a, 1: term_b} and {0: term_a, 1: term_b,
\* 2: term_b} with every lookup that answers for a package no term or the
\* other of the two terms.
SampleTerms(n) ==
    [i \in 1..n |-> <<i - 1, IF i = 1 THEN term_a ELSE term_b>>]

SampleLookup(tracked) ==
    [p \in 0..2 |-> IF p \in tracked THEN (IF p = 0 THEN term_b ELSE term_a)
                     ELSE NullTerm]

SampleIncompat(n) ==
    [terms |-> SampleTerms(n), kind |-> [tag |-> "DerivedFrom", a |-> 0, b |-> 0]]

RelationInputs ==
    {<<incompatibility_store[id + 1], terms_lookup(partial_solution, Len(package_store))>> :
        id \in ListedIncompatibilities}
    \cup {<<SampleIncompat(3), SampleLookup(tracked)>> :
              tracked \in {{0}, {0, 1}, {0, 1, 2}, {1, 2}}}
    \cup {<<SampleIncompat(2), SampleLookup(tracked)>> : tracked \in {{1}, {0, 1}}}

\* The status of every term of input x = <<incompatibility, lookup>>.
StatusOfTerms(x) == [i \in 1..Len(x[1].terms) |-> term_status(x[1].terms[i], x[2])]

\* The positions of the terms of input x = <<incompatibility, lookup>> that
\* have the given status.
TermsWithStatus(x, status) ==
    {i \in 1..Len(x[1].terms) : term_status(x[1].terms[i], x[2]) = status}

(***************************************************************************)
(* C35.  As stated: relation answers Contradicted whenever one of the      *)
(* terms of the incompatibility is contradicted by the partial solution,   *)
(* whatever the order of the terms and however many other terms are        *)
(* inconclusive or missing.                                                *)
(***************************************************************************)
C35_AsStated ==
    \A x \in RelationInputs : \A contradictedFirst \in BOOLEAN :
        (\E i \in 1..Len(x[1].terms) : StatusOfTerms(x)[i] = "Contradicted") =>
            relation(x[1], x[2], contradictedFirst).tag = "Contradicted"

(***************************************************************************)
(* C35, amended.  With a contradicted term relation answers Contradicted   *)
(* on a contradicted package, or Inconclusive; it answers Contradicted     *)
(* when fewer than two terms are inconclusive or missing, as with every    *)
(* incompatibility of at most two terms, and may answer Inconclusive only  *)
(* when two or more are, the walk having met the second of them before a   *)
(* contradicted term.                                                      *)
(***************************************************************************)
C35_Amended ==
    \A x \in RelationInputs : \E st \in {StatusOfTerms(x)} :
        (\E i \in DOMAIN st : st[i] = "Contradicted") =>
            \A contradictedFirst \in BOOLEAN :
                \E rel \in {relation(x[1], x[2], contradictedFirst)} :
                    /\ rel.tag \in {"Contradicted", "Inconclusive"}
                    /\ rel.tag = "Contradicted" =>
                          \E i \in DOMAIN st :
                              st[i] = "Contradicted" /\ x[1].terms[i][1] = rel.pkg
                    /\ Cardinality({i \in DOMAIN st : st[i] = "Inconclusive"}) < 2 =>
                          rel.tag = "Contradicted"
                    /\ Len(x[1].terms) <= 2 => rel.tag = "Contradicted"

\* An incompatibility with a contradicted term and two terms without a term
\* in the lookup, answered Inconclusive or Contradicted by the order of the
\* walk; and one of two terms, the first unsettled, the second contradicted.
C35_Witness ==
    /\ \E x \in RelationInputs :
          /\ TermsWithStatus(x, "Contradicted") # {}
          /\ Cardinality(TermsWithStatus(x, "Inconclusive")) >= 2
          /\ relation(x[1], x[2], FALSE).tag = "Inconclusive"
          /\ relation(x[1], x[2], TRUE).tag = "Contradicted"
    /\ \E x \in RelationInputs :
          /\ TermsWithStatus(x, "Inconclusive") = {1}
          /\ TermsWithStatus(x, "Contradicted") = {2}
          /\ relation(x[1], x[2], FALSE).tag = "Contradicted"

\* Stores to apply prior_cause to: a current incompatibility {0: term_a,
\* 1: term_b} and a cause {0: term_b, 1: term_a, 2: term_a}, with pivot 0 (a
\* package of both), package 1 in both and package 2 in the cause only.
PriorCauseStore ==
    << [terms |-> <<<<0, term_a>>, <<1, term_b>>>>,
        kind |-> [tag |-> "DerivedFrom", a |-> 0, b |-> 0]],
       [terms |-> <<<<0, term_b>>, <<1, term_a>>, <<2, term_a>>>>,
        kind |-> [tag |-> "DerivedFrom", a |-> 0, b |-> 0]] >>

\* The term the rule of prior_cause gives package q from the terms x and y
\* the two inputs have on it (NullTerm: no term).
PriorCauseRule(x, y, q, pivot) ==
    IF q = pivot
    THEN (IF term_intersection(x, y) = TermAny THEN NullTerm
          ELSE term_intersection(x, y))
    ELSE IF x # NullTerm /\ y # NullTerm THEN term_intersection(x, y)
    ELSE IF x # NullTerm THEN x
    ELSE y

(***************************************************************************)
(* C36.  prior_cause(current, cause, pivot) gives every package other than *)
(* the pivot that appears in either input the intersection of the two      *)
(* terms when both inputs have one and the single term otherwise; the      *)
(* pivot has the intersection of the two pivot terms, unless that          *)
(* intersection equals any, in which case the pivot has no term.           *)
(***************************************************************************)
C36_PriorCauseTerms ==
    \E store \in {PriorCauseStore} :
        \E derived \in {prior_cause(0, 1, 0, store)} :
            /\ derived.kind = [tag |-> "DerivedFrom", a |-> 0, b |-> 1]
            /\ \A q \in 0..2 :
                  map_get(derived.terms, q) =
                      PriorCauseRule(map_get(store[1].terms, q),
                                     map_get(store[2].terms, q), q, 0)

\* The incompatibilities of the store with exactly n terms.
StoredWithTerms(n) ==
    {id \in 0..(Len(incompatibility_store) - 1) :
        Len(incompatibility_store[id + 1].terms) = n}

\* The incompatibilities is_terminal is asked about: those of the store and
\* the one without terms (which no run of resolve derives).
TerminalInputs ==
    {incompatibility_store[id + 1] : id \in 0..(Len(incompatibility_store) - 1)}
        \cup {[terms |-> << >>, kind |-> [tag |-> "DerivedFrom", a |-> 0, b |-> 0]]}

(***************************************************************************)
(* C37.  is_terminal(root_pkg, root_ver) is true exactly when the          *)
(* incompatibility has zero terms, or exactly one term that is on the root *)
(* package and contains the root version: asked of every incompatibility   *)
(* of the store and of the empty one, for every package as root package    *)
(* and every version.                                                      *)
(***************************************************************************)
C37_TerminalExactly ==
    \A inc \in TerminalInputs :
        \A root_pkg \in 0..(Len(package_store) - 1), root_ver \in 0..3 :
            is_terminal(inc, root_pkg, root_ver) <=>
                \/ Len(inc.terms) = 0
                \/ /\ Len(inc.terms) = 1
                   /\ \A i \in 1..Len(inc.terms) :
                         /\ inc.terms[i][1] = root_pkg
                         /\ root_ver \in VersionsIn(inc.terms[i][2], {root_ver})

\* Conflict resolution has failed on a single term on the root package that
\* contains the root version; the same incompatibility is not terminal for a
\* root version its term excludes, not_root's single term on the root package
\* does not contain the root version, and the empty incompatibility is
\* terminal.
C37_Witness ==
    /\ pc = "failed"
    /\ \E id \in StoredWithTerms(1) :
          \E inc \in {incompatibility_store[id + 1]} :
              /\ is_terminal(inc, root_package, root_version)
              /\ \E v \in 0..3 : ~ is_terminal(inc, root_package, v)
    /\ \E id \in StoredWithTerms(1) :
          /\ incompatibility_store[id + 1].terms[1][1] = root_package
          /\ ~ is_terminal(incompatibility_store[id + 1], root_package, root_version)
    /\ \E inc \in TerminalInputs :
          Len(inc.terms) = 0 /\ is_terminal(inc, root_package, root_version)

\* Pairs <<this, other>> to apply merge_dependents to: this a dependency of
\* p1 in term_a's ranges on p2 in term_b's ranges, other a dependency of q1
\* on q2 with both ranges term_b's or both term_a's, or a no_versions; p1,
\* p2, q1, q2 are packages 0 and 1, so that a package may depend on itself.
MergeInputs ==
    {<<from_dependency(p[1], term_a.ranges, p[2], term_b.ranges), other>> :
        p \in (0..1) \X (0..1),
        other \in {from_dependency(q[1], r, q[2], r) :
                       q \in (0..1) \X (0..1), r \in {term_a.ranges, term_b.ranges}}
                   \cup {no_versions(0, term_a)}}

\* Both are FromDependency with the same (p1, p2) and have the same term on p2.
SameDependency(this, other) ==
    /\ as_dependency(this) # << >>
    /\ as_dependency(this) = as_dependency(other)
    /\ map_get(this.terms, this.kind.b) # NullTerm
    /\ map_get(this.terms, this.kind.b) = map_get(other.terms, this.kind.b)

\* merged is a FromDependency of the same (p1, p2) with the p2 term of this
\* and, on p1, a positive term of the versions of either p1 term.
IsMergeOf(merged, this, other) ==
    /\ merged.kind = this.kind
    /\ map_keys(merged.terms) = {this.kind.a, this.kind.b}
    /\ map_get(merged.terms, this.kind.b) = map_get(this.terms, this.kind.b)
    /\ is_positive(map_get(merged.terms, this.kind.a))
    /\ VersionsIn(map_get(merged.terms, this.kind.a), Probes) =
           VersionsIn(map_get(this.terms, this.kind.a), Probes)
               \cup VersionsIn(map_get(other.terms, this.kind.a), Probes)

(***************************************************************************)
(* C38.  As stated: merge_dependents returns a merged incompatibility      *)
(* exactly when both inputs are FromDependency with the same (p1, p2) and  *)
(* identical term on p2; the result is then a FromDependency with the same *)
(* p2 term whose p1 term is the union of the two p1 ranges.                *)
(***************************************************************************)
C38_AsStated ==
    \A x \in MergeInputs : \E m \in {merge_dependents(x[1], x[2])} :
        /\ m # << >> <=> SameDependency(x[1], x[2])
        /\ m # << >> => IsMergeOf(m[1], x[1], x[2])

(***************************************************************************)
(* C38, amended.  merge_dependents returns a merged incompatibility        *)
(* exactly when both inputs are FromDependency with the same (p1, p2), p1  *)
(* and p2 are different packages, and the two have the same term on p2;    *)
(* the result is then a FromDependency with the same p2 term whose p1 term *)
(* is the union of the two p1 ranges.                                      *)
(***************************************************************************)
C38_Amended ==
    \A x \in MergeInputs : \E m \in {merge_dependents(x[1], x[2])} :
        /\ m # << >> <=> (SameDependency(x[1], x[2]) /\ x[1].kind.a # x[1].kind.b)
        /\ m # << >> => IsMergeOf(m[1], x[1], x[2])

\* Two dependencies of package 0 on package 1 with the same term on 1 and
\* different ranges on 0 are merged; two dependencies of a package on itself
\* with the same term are not, nor are two with different terms on 1.
C38_Witness ==
    /\ \E x \in MergeInputs :
          /\ x[1].kind.a # x[1].kind.b
          /\ map_get(x[1].terms, x[1].kind.a) # map_get(x[2].terms, x[1].kind.a)
          /\ merge_dependents(x[1], x[2]) # << >>
    /\ \E x \in MergeInputs :
          /\ x[1].kind.a = x[1].kind.b
          /\ SameDependency(x[1], x[2])
          /\ merge_dependents(x[1], x[2]) = << >>
    /\ \E x \in MergeInputs :
          /\ as_dependency(x[1]) = as_dependency(x[2])
          /\ x[1].kind.a # x[1].kind.b
          /\ map_get(x[2].terms, x[1].kind.b) # NullTerm
          /\ merge_dependents(x[1], x[2]) = << >>

\* Incompatibilities to call add_incompatibility with in the current state:
\* for every pair (p1, p2) of the merged index, a dependency of p1 = v on p2
\* with the p2 ranges of an indexed incompatibility or with all versions, and
\* a no_versions on the root package.
MergeCandidates ==
    UNION {{from_dependency(key[1], singleton(v), key[2], r) :
               v \in 1..3,
               r \in {RangesFull} \cup
                     {map_get(incompatibility_store[j + 1].terms, key[2]).ranges :
                         j \in {merged_dependencies[key][n] :
                                   n \in 1..Len(merged_dependencies[key])}}} :
              key \in DOMAIN merged_dependencies}
        \cup {no_versions(root_package, Positive(singleton(root_version)))}

\* The past incompatibilities of the merged index that inc merges with.
MergesWith(inc) ==
    IF as_dependency(inc) = << >> THEN {}
    ELSE LET list == ListOf(merged_dependencies, as_dependency(inc)[1])
         IN {j \in {list[n] : n \in 1..Len(list)} :
                merge_dependents(inc, incompatibility_store[j + 1]) # << >>}

\* The packages an incompatibility has a term on.
PackagesOf(inc) == map_keys(inc.terms)

\* after is the state add_incompatibility leaves when inc, stored as i,
\* merges with nothing.
AddedUnmerged(after, inc, i) ==
    /\ after.incompatibility_store = Append(incompatibility_store, inc)
    /\ IF as_dependency(inc) = << >>
       THEN after.merged_dependencies = merged_dependencies
       ELSE after.merged_dependencies =
                Put(merged_dependencies, as_dependency(inc)[1],
                    Append(ListOf(merged_dependencies, as_dependency(inc)[1]), i))
    /\ DOMAIN after.incompatibilities = DOMAIN incompatibilities \cup PackagesOf(inc)
    /\ \A pkg \in DOMAIN after.incompatibilities :
          after.incompatibilities[pkg] =
              IF pkg \in PackagesOf(inc) THEN Append(ListOf(incompatibilities, pkg), i)
              ELSE incompatibilities[pkg]

\* after is the state add_incompatibility leaves when inc, stored as i,
\* merges with the past incompatibility j into k.
AddedMerged(after, inc, i, j, k) ==
    /\ Len(after.incompatibility_store) = k + 1
    /\ <<after.incompatibility_store[k + 1]>> =
           merge_dependents(inc, incompatibility_store[j + 1])
    /\ \A pkg \in DOMAIN after.incompatibilities :
          \A n \in 1..Len(after.incompatibilities[pkg]) :
              after.incompatibilities[pkg][n] \notin {i, j}
    /\ DOMAIN after.merged_dependencies = DOMAIN merged_dependencies
    /\ \A key \in DOMAIN merged_dependencies :
          after.merged_dependencies[key] =
              [n \in 1..Len(merged_dependencies[key]) |->
                  IF key = as_dependency(inc)[1] /\ merged_dependencies[key][n] = j
                  THEN k ELSE merged_dependencies[key][n]]
    /\ DOMAIN after.incompatibilities =
           DOMAIN incompatibilities \cup PackagesOf(after.incompatibility_store[k + 1])
    /\ \A pkg \in DOMAIN after.incompatibilities :
          after.incompatibilities[pkg] =
              IF pkg \in PackagesOf(after.incompatibility_store[k + 1])
              THEN Append(remove_id(ListOf(incompatibilities, pkg), j), k)
              ELSE incompatibilities[pkg]

(***************************************************************************)
(* C39.  After merge_incompatibility(i) has merged i with a past           *)
(* incompatibility j into k, j is in no per-package list, k has replaced j *)
(* in merged_dependencies[(p1, p2)], and k, not i, is appended to the list *)
(* of every package of k; when nothing merges, i is appended to the merged *)
(* index (when it is a dependency) and to the list of each of its          *)
(* packages.  Asked of add_incompatibility in every state for every        *)
(* candidate incompatibility.                                              *)
(***************************************************************************)
C39_MergeLists ==
    \A inc \in MergeCandidates :
        \E after \in {add_incompatibility(StateRec, inc)} :
            \E js \in {MergesWith(inc)} :
                /\ Cardinality(js) <= 1
                /\ js = {} => AddedUnmerged(after, inc, Len(incompatibility_store))
                /\ \A j \in js : AddedMerged(after, inc, Len(incompatibility_store), j,
                                             Len(incompatibility_store) + 1)

\* resolve has merged the dependencies of two versions of a package: the
\* merged incompatibility k is listed for both its packages and indexed, the
\* past one j is neither; a candidate dependency merges with an indexed
\* incompatibility and another merges with nothing.
C39_Witness ==
    /\ \E k \in ListedIncompatibilities, j \in 0..(Len(incompatibility_store) - 1) :
          \E inc \in {incompatibility_store[k + 1]} :
              /\ j < k
              /\ inc.kind.tag = "FromDependencyOf"
              /\ incompatibility_store[j + 1].kind = inc.kind
              /\ Cardinality(VersionsIn(map_get(inc.terms, inc.kind.a), 1..3)) >= 2
              /\ j \notin ListedIncompatibilities
              /\ merged_dependencies[<<inc.kind.a, inc.kind.b>>] = <<k>>
              /\ \A pkg \in PackagesOf(inc) :
                    \E n \in 1..Len(incompatibilities[pkg]) : incompatibilities[pkg][n] = k
    /\ \E inc \in MergeCandidates : MergesWith(inc) # {}
    /\ \E inc \in MergeCandidates :
          as_dependency(inc) # << >> /\ MergesWith(inc) = {}

\* The versions of package whose dependencies this step of resolve ingests:
\* those new in added_dependencies that the provider has dependencies for.
IngestedNow(package) ==
    IF pc # "decide" \/ package \notin DOMAIN added_dependencies' THEN {}
    ELSE {v \in added_dependencies'[package] \
                   (IF package \in DOMAIN added_dependencies
                    THEN added_dependencies[package] ELSE {}) :
             get_dependencies(provider, package_store'[package + 1], v).tag = "Available"}

\* The incompatibilities this step has added to the store that are satisfied
\* when exact(version) stands for package and the partial solution's term for
\* every other package.
SatisfiedWith(package, version) ==
    {id \in Len(incompatibility_store)..(Len(incompatibility_store') - 1) :
        \A i \in 1..Len(incompatibility_store'[id + 1].terms) :
            term_status(incompatibility_store'[id + 1].terms[i],
                        [q \in 0..(Len(package_store') - 1) |->
                            IF q = package THEN exact(version)
                            ELSE term_intersection_for_package(partial_solution, q)])
                = "Satisfied"}

\* The step has added the decision package = version.
DecisionAdded(package, version) ==
    /\ package \in Decided(partial_solution') \ Decided(partial_solution)
    /\ DecidedVersion(partial_solution', package) = version

\* The step has added no decision and has counted incompatibility id as the
\* one add_package_version_dependencies returned.
ConflictReturned(package, id) ==
    /\ Decided(partial_solution') = Decided(partial_solution)
    /\ conflict_tracker' =
           track_dependency_conflict(
               track_causes(conflict_tracker, satisfier_causes, 1, incompatibility_store),
               package, id, incompatibility_store')

(***************************************************************************)
(* C40.  When the dependencies of a newly chosen p = v are ingested: if no *)
(* backtrack has ever occurred, p = v is added as a decision without       *)
(* checking the new incompatibilities; otherwise, if some new              *)
(* incompatibility would be Satisfied with exact(v) substituted for p, the *)
(* id of such an incompatibility is returned and no decision is added,     *)
(* else the decision is added.                                             *)
(***************************************************************************)
C40_IngestDecision ==
    [][\A package \in 0..(Len(package_store) - 1) :
          \A version \in IngestedNow(package) :
              IF ~ partial_solution.has_ever_backtracked
              THEN DecisionAdded(package, version)
              ELSE IF SatisfiedWith(package, version) # {}
              THEN \E id \in SatisfiedWith(package, version) :
                       ConflictReturned(package, id)
              ELSE DecisionAdded(package, version)]_vars

\* resolve has just ingested the dependencies of a version of next after a
\* backtrack, one of them was satisfied with that version, and resolve goes
\* back to unit propagation with the conflict counted and next undecided.
C40_Witness ==
    /\ pc = "propagate"
    /\ unit_propagation_buffer = <<next>>
    /\ satisfier_causes = << >>
    /\ partial_solution.has_ever_backtracked
    /\ next \notin Decided(partial_solution)
    /\ next \in DOMAIN added_dependencies
    /\ next \in DOMAIN conflict_tracker
    /\ conflict_tracker[next].dependencies_affected >= 1

====
